---------------------------- MODULE Spec2Model ----------------------------
(***************************************************************************)
(* A model of the front end of the Clue compiler: the analyzer and the    *)
(* preprocessor (core/src/preprocessor.rs) and the scanner                *)
(* (core/src/scanner.rs).                                                 *)
(*                                                                         *)
(* Text is a sequence of one-character strings.  A character iterator     *)
(* (Peekable<Chars>) is a pair: the text s and the index i of the next    *)
(* character to be read; the iterator is exhausted when i > Len(s).       *)
(***************************************************************************)
EXTENDS Integers, Sequences, FiniteSets, TLC

VARIABLES
    scenario,       \* which family of inputs this behaviour draws from
    overflowChecks, \* the build: TRUE = arithmetic overflow panics (debug),
                    \*            FALSE = it wraps (release)
    pc,             \* position of the driver: "preprocess", "done", ...
    rawcode,        \* preprocess_code: the text being preprocessed
    chars,          \* preprocess_code: index of the next character of rawcode
    code,           \* preprocess_code: the output built so far
    origin,         \* history: for every character of code, the index in
                    \* rawcode it was copied from (0: not a copy)
    prev,           \* preprocess_code: outcome of the last directive
    prevline,       \* preprocess_code: line of the last emitted newline
    line,           \* preprocess_code: the line counter (*line)
    values,         \* preprocess_code: the values map
    pseudos,        \* preprocess_code: the cached pseudo list, or None
    file,           \* analyze_file: the reader (bytes, position, peeked)
    codeinfo,       \* scan_code: the CodeInfo i
    result          \* what the call returned: status and diagnostic

vars == <<scenario, overflowChecks, pc, rawcode, chars, code, origin, prev,
          prevline, line, values, pseudos, file, codeinfo, result>>

-----------------------------------------------------------------------------
(* Characters *)

Lowercase == {"a","b","c","d","e","f","g","h","i","j","k","l","m",
              "n","o","p","q","r","s","t","u","v","w","x","y","z"}
Uppercase == {"A","B","C","D","E","F","G","H","I","J","K","L","M",
              "N","O","P","Q","R","S","T","U","V","W","X","Y","Z"}
Digit == {"0","1","2","3","4","5","6","7","8","9"}

(* The grave accent, the delimiter of raw strings, is written as a name:  *)
(* the character itself cannot stand in a string of this notation.       *)
Backtick == "<backtick>"

Punctuation ==
    {"!", "\"", "#", "$", "%", "&", "'", "(", ")", "*", "+", ",", "-", ".",
     "/", ":", ";", "<", "=", ">", "?", "@", "[", "\\", "]", "^", "_",
     Backtick, "{", "|", "}", "~"}

Whitespace == {" ", "\n", "\t", "\r"}

(* The characters of the texts: ASCII. *)
Char == Lowercase \cup Uppercase \cup Digit \cup Punctuation \cup Whitespace

is_whitespace(c) == c \in Whitespace

is_ascii_digit(c) == c \in Digit

is_ascii_alphabetic(c) == c \in Lowercase \cup Uppercase

is_identifier(c) == is_ascii_alphabetic(c) \/ is_ascii_digit(c) \/ c = "_"

DigitValue(c) ==
    CASE c = "0" -> 0 [] c = "1" -> 1 [] c = "2" -> 2 [] c = "3" -> 3
      [] c = "4" -> 4 [] c = "5" -> 5 [] c = "6" -> 6 [] c = "7" -> 7
      [] c = "8" -> 8 [] c = "9" -> 9

to_ascii_lowercase_char(c) ==
    CASE c = "A" -> "a" [] c = "B" -> "b" [] c = "C" -> "c" [] c = "D" -> "d"
      [] c = "E" -> "e" [] c = "F" -> "f" [] c = "G" -> "g" [] c = "H" -> "h"
      [] c = "I" -> "i" [] c = "J" -> "j" [] c = "K" -> "k" [] c = "L" -> "l"
      [] c = "M" -> "m" [] c = "N" -> "n" [] c = "O" -> "o" [] c = "P" -> "p"
      [] c = "Q" -> "q" [] c = "R" -> "r" [] c = "S" -> "s" [] c = "T" -> "t"
      [] c = "U" -> "u" [] c = "V" -> "v" [] c = "W" -> "w" [] c = "X" -> "x"
      [] c = "Y" -> "y" [] c = "Z" -> "z" [] OTHER -> c

to_ascii_lowercase(w) == [k \in 1..Len(w) |-> to_ascii_lowercase_char(w[k])]

(* The number of newlines of a text. *)
NewlineCount(s) == Cardinality({k \in 1..Len(s) : s[k] = "\n"})

(* n copies of the character c. *)
Repeat(c, n) == [k \in 1..n |-> c]

(* The text s without the characters of the set drop (String::retain). *)
RECURSIVE Retain(_, _)
Retain(s, drop) ==
    IF s = <<>> THEN <<>>
    ELSE IF Head(s) \in drop THEN Retain(Tail(s), drop)
         ELSE <<Head(s)>> \o Retain(Tail(s), drop)

(* name.parse::<usize>() on a text of identifier characters: Some(n) when *)
(* every character is a digit.                                            *)
IsUsize(name) == name # <<>> /\ \A k \in 1..Len(name) : is_ascii_digit(name[k])

RECURSIVE ParseUsize(_)
ParseUsize(name) ==
    IF name = <<>> THEN 0
    ELSE 10 * ParseUsize(SubSeq(name, 1, Len(name) - 1))
         + DigitValue(name[Len(name)])

-----------------------------------------------------------------------------
(* The host: operating system and environment variables *)

HostOS == <<"l","i","n","u","x">>

(* env::var: the variable H is set to 7 in the host environment, no other *)
(* name the inputs use is.                                                *)
HostEnv == [n \in {<<"H">>} |-> <<"7">>]

env_var_is_ok(name) == name \in DOMAIN HostEnv

-----------------------------------------------------------------------------
(* Results.  Every helper returns a record with a status: "Ok", "Err" (a  *)
(* diagnostic returned by value) or "Panic" (the process aborts).         *)

(* A diagnostic is a fixed text and the texts spliced into it.            *)
NoArg == <<>>

Ok(fields) == [status |-> "Ok", text |-> "", detail |-> NoArg, errline |-> 0]
                  @@ fields

error(msg, arg, ln) ==
    [status |-> "Err", text |-> msg, detail |-> arg, errline |-> ln]

expected(want, got, ln) == error("Expected 'X', got 'Y'", <<want, got>>, ln)

expected_before(want, ln) ==
    error("Expected 'X' before '<end>'", <<want>>, ln)

Panic(msg) == [status |-> "Panic", text |-> msg, detail |-> NoArg, errline |-> 0]

Failure(r) ==
    [status |-> r.status, text |-> r.text, detail |-> r.detail, errline |-> r.errline]

-----------------------------------------------------------------------------
(* Reading helpers of the preprocessor *)

(* read_with: the longest run of characters from i on that satisfy the    *)
(* predicate f, given as the set of the characters that satisfy it.       *)
read_with(s, i, f) ==
    LET j == CHOOSE j \in i..(Len(s) + 1) :
                 /\ (j = Len(s) + 1 \/ s[j] \notin f)
                 /\ \A k \in i..(j - 1) : s[k] \in f
    IN  [i |-> j, result |-> SubSeq(s, i, j - 1)]

skip_whitespace(s, i, ln) ==
    LET r == read_with(s, i, Whitespace)
    IN  [i |-> r.i, line |-> ln + NewlineCount(r.result)]

reach(s, i, end, ln) ==
    LET w == skip_whitespace(s, i, ln)
    IN  IF w.i <= Len(s)
        THEN IF s[w.i] # end
             THEN expected(<<end>>, <<s[w.i]>>, w.line)
             ELSE Ok([i |-> w.i + 1, line |-> w.line])
        ELSE expected_before(<<end>>, w.line)

read_word(s, i) == read_with(s, i, Char \ Whitespace)

assert_word(s, i, ln) ==
    LET w == skip_whitespace(s, i, ln)
        r == read_word(s, w.i)
    IN  IF r.result = <<>>
        THEN error("Word expected", NoArg, w.line)
                 @@ [i |-> r.i, line |-> w.line]
        ELSE Ok([i |-> r.i, line |-> w.line, word |-> r.result])

assert_name(s, i, ln) ==
    LET r == assert_word(s, i, ln)
    IN  IF r.status # "Ok" THEN r
        ELSE IF \E k \in 1..Len(r.word) : r.word[k] = "="
             THEN error("The value's name cannot contain '='", NoArg, r.line)
                      @@ [i |-> r.i, line |-> r.line]
             ELSE r

read_until(s, i, end, ln) ==
    LET r == read_with(s, i, Char \ {end})
    IN  IF r.i > Len(s)
        THEN expected_before(<<end>>, ln)
        ELSE Ok([i |-> r.i + 1, rawarg |-> r.result])


-----------------------------------------------------------------------------
(* read_block: the text between the next '{' and its matching '}'.  The   *)
(* depth counter cscope is a u8.                                           *)

U8Max == 255

(* One iteration of the loop of read_block, on the character s[k]; st is  *)
(* the depth counter and, once the loop has been left, how and where.     *)
read_block_char(s, k, st) ==
    IF st.status # "Running" THEN st
    ELSE IF s[k] = "{"
         THEN IF st.cscope = U8Max
              THEN IF overflowChecks
                   THEN [st EXCEPT !.status = "Overflow"]
                   ELSE [st EXCEPT !.cscope = 0]
              ELSE [st EXCEPT !.cscope = @ + 1]
    ELSE IF s[k] = "}"
         THEN IF st.cscope = 0
              THEN IF overflowChecks
                   THEN [st EXCEPT !.status = "Underflow"]
                   ELSE [st EXCEPT !.cscope = U8Max]
              ELSE IF st.cscope - 1 = 0
                   THEN [status |-> "Returned", cscope |-> 0, i |-> k]
                   ELSE [st EXCEPT !.cscope = @ - 1]
    ELSE st

(* The iterations on s[lo], ..., s[hi] in order (the range is halved so   *)
(* that long texts need no deep recursion).                               *)
RECURSIVE read_block_chars(_, _, _, _)
read_block_chars(s, lo, hi, st) ==
    IF lo > hi \/ st.status # "Running" THEN st
    ELSE IF lo = hi THEN read_block_char(s, lo, st)
    ELSE LET mid == (lo + hi) \div 2
         IN  read_block_chars(s, mid + 1, hi,
                              read_block_chars(s, lo, mid, st))

read_block_loop(s, start, i, cscope, ln) ==
    LET st == read_block_chars(s, i, Len(s),
                               [status |-> "Running", cscope |-> cscope,
                                i |-> i])
    IN  CASE st.status = "Running" -> expected_before(<<"}">>, ln)
          [] st.status = "Overflow" -> Panic("attempt to add with overflow")
          [] st.status = "Underflow" ->
                 Panic("attempt to subtract with overflow")
          [] st.status = "Returned" ->
                 Ok([i |-> st.i + 1, line |-> ln, start |-> start,
                     block |-> SubSeq(s, start, st.i - 1)])

read_block(s, i, ln) ==
    LET r == reach(s, i, "{", ln)
    IN  IF r.status # "Ok" THEN r
        ELSE read_block_loop(s, r.i, r.i, 1, r.line)

-----------------------------------------------------------------------------
(* read_pseudos: the target list of the nearest assignment, read          *)
(* backwards over the emitted text.  p is the index of the next character *)
(* the reversed iterator yields; p = 0 when it is exhausted.              *)

skip_whitespace_backwards(text, p) ==
    CHOOSE q \in 0..p :
        /\ (q = 0 \/ ~is_whitespace(text[q]))
        /\ \A k \in (q + 1)..p : is_whitespace(text[k])

RECURSIVE find_assignment(_, _)
find_assignment(text, p) ==
    IF p = 0 THEN [found |-> FALSE, p |-> 0]
    ELSE IF text[p] = "="
         THEN IF p - 1 = 0 THEN [found |-> FALSE, p |-> 0]
              ELSE IF text[p - 1] \in {"!", "="}
                   THEN find_assignment(text, p - 2)
                   ELSE [found |-> TRUE, p |-> p - 2]
         ELSE find_assignment(text, p - 1)

RECURSIVE read_names(_, _, _)
read_names(text, p, newpseudos) ==
    LET q == CHOOSE q \in 0..p :
                 /\ (q = 0 \/ ~is_identifier(text[q]))
                 /\ \A k \in (q + 1)..p : is_identifier(text[k])
        name == SubSeq(text, q + 1, p)
        r == skip_whitespace_backwards(text, q)
    IN  IF r >= 1 /\ text[r] = ","
        THEN read_names(text, r - 1, Append(newpseudos, name))
        ELSE Append(newpseudos, name)

read_pseudos(text) ==
    LET a == find_assignment(text, Len(text))
    IN  IF ~a.found THEN <<>>
        ELSE read_names(text, skip_whitespace_backwards(text, a.p), <<>>)


-----------------------------------------------------------------------------
(* preprocess_code.  A frame holds the locals of one call: the text s,    *)
(* the iterator position i, the output code (with the history origin),    *)
(* prev, prevline, line, values and pseudos.  off is history: s[k] is the *)
(* character off + k of the outermost text (track = FALSE for a text that *)
(* is not a slice of it).                                                 *)

None == [some |-> FALSE, list |-> <<>>]

Some(list) == [some |-> TRUE, list |-> list]

EmptyMap == [n \in {} |-> <<>>]

insert(map, name, value) ==
    [n \in DOMAIN map \cup {name} |-> IF n = name THEN value ELSE map[n]]

remove(map, name) == [n \in DOMAIN map \ {name} |-> map[n]]

NewFrame(s, ps, vals, ln, track, off) ==
    [status |-> "Running", text |-> "", detail |-> NoArg, errline |-> 0,
     s |-> s, i |-> 1, code |-> <<>>, origin |-> <<>>, prev |-> TRUE,
     prevline |-> ln, line |-> ln, values |-> vals, pseudos |-> ps,
     track |-> track, off |-> off]

Fail(f, r) ==
    [f EXCEPT !.status = r.status, !.text = r.text, !.detail = r.detail,
              !.errline = r.errline]

(* The origin of the character s[k] of the frame f. *)
Org(f, k) == IF f.track THEN f.off + k ELSE 0

(* code.push_back(c), c read at index k of the text. *)
PushFrom(f, c, k) ==
    [f EXCEPT !.code = Append(@, c), !.origin = Append(@, Org(f, k))]

(* code.append(text) of characters that are not copies of the input. *)
AppendNew(f, text) ==
    [f EXCEPT !.code = @ \o text, !.origin = @ \o Repeat(0, Len(text))]

ends_with(w, suffix) ==
    /\ Len(w) >= Len(suffix)
    /\ SubSeq(w, Len(w) - Len(suffix) + 1, Len(w)) = suffix

(* preprocess_code calls read_arg and keep_block, which call it again.    *)
(* Where a step of a function can fail (Rust's question mark), the rest   *)
(* of the function is a definition of its own that takes the value the    *)
(* step returned.                                                         *)
RECURSIVE preprocess_code(_, _, _, _, _, _)
RECURSIVE preprocess_loop(_)
RECURSIVE preprocess_step(_)
RECURSIVE directive_arm(_)
RECURSIVE directive_read(_, _)
RECURSIVE directive_word(_, _, _)
RECURSIVE ifos_directive(_, _)
RECURSIVE ifos_target(_, _)
RECURSIVE ifdef_directive(_, _)
RECURSIVE ifdef_var(_, _)
RECURSIVE ifcmp_directive(_, _)
RECURSIVE ifcmp_arg1(_, _)
RECURSIVE ifcmp_condition(_, _, _)
RECURSIVE ifcmp_arg2(_, _, _, _)
RECURSIVE else_directive(_, _)
RECURSIVE define_directive(_, _)
RECURSIVE define_name(_, _)
RECURSIVE define_value(_, _, _)
RECURSIVE error_directive(_, _)
RECURSIVE error_msg(_, _)
RECURSIVE print_directive(_, _)
RECURSIVE print_msg(_, _)
RECURSIVE keep_block(_, _, _, _)
RECURSIVE keep_block_read(_, _, _)
RECURSIVE keep_block_append(_, _, _, _)
RECURSIVE read_arg(_, _, _)
RECURSIVE read_arg_reached(_, _)
RECURSIVE read_arg_rawarg(_, _)
RECURSIVE read_arg_result(_, _)

read_arg_result(u, a) ==
    IF a.status # "Ok" THEN Failure(a)
    ELSE Ok([i |-> u.i, line |-> a.line, arg |-> a.code, result |-> a.prev])

read_arg_rawarg(r, u) ==
    IF u.status # "Ok" THEN Failure(u)
    ELSE read_arg_result(u,
             preprocess_code(Retain(u.rawarg, {"\r", "\n", "\t"}), None,
                             EmptyMap, r.line, FALSE, 0))

read_arg_reached(s, r) ==
    IF r.status # "Ok" THEN Failure(r)
    ELSE read_arg_rawarg(r, read_until(s, r.i, "\"", r.line))

read_arg(s, i, ln) == read_arg_reached(s, reach(s, i, "\"", ln))

(* keep_block on the frame f whose iterator stands at i and whose line is *)
(* ln; the frame returned has prev = cond.                                *)
keep_block_append(f, b, cond, body) ==
    IF body.status # "Ok" THEN Fail(f, body)
    ELSE [f EXCEPT !.i = b.i, !.line = b.line,
                   !.code = @ \o body.code,
                   !.origin = @ \o body.origin,
                   !.prev = cond]

(* The lines pushed for a block that is not kept. *)
omitted_block(block) ==
    Ok([code |-> Repeat("\n", NewlineCount(block)),
        origin |-> Repeat(0, NewlineCount(block))])

(* keep_block_read with the body of a kept block preprocessed under the   *)
(* values of the enclosing call instead of a new map.                     *)
keep_block_read_inherit(f, cond, b) ==
    IF b.status # "Ok" THEN Fail(f, b)
    ELSE keep_block_append(f, b, cond,
             IF cond
             THEN preprocess_code(b.block, None, f.values, b.line,
                                  f.track, f.off + b.start - 1)
             ELSE omitted_block(b.block))

keep_block_read(f, cond, b) ==
    IF b.status # "Ok" THEN Fail(f, b)
    ELSE keep_block_append(f, b, cond,
             IF cond
             THEN preprocess_code(b.block, None, EmptyMap, b.line,
                                  f.track, f.off + b.start - 1)
             ELSE omitted_block(b.block))

keep_block(f, i, ln, cond) == keep_block_read(f, cond, read_block(f.s, i, ln))

(* The arms of the match in preprocess_code's loop.  In each, f.i is the  *)
(* index of the character c that chars.next() has just returned.          *)

(* The newline arm. *)
newline_arm(f) ==
    [f EXCEPT !.code = @ \o Repeat("\n", f.line - f.prevline + 1),
              !.origin = @ \o Repeat(0, f.line - f.prevline)
                           \o <<Org(f, f.i)>>,
              !.i = f.i + 1, !.line = f.line + 1, !.prevline = f.line + 1]

ifos_target(f, target_os) ==
    IF target_os.status # "Ok" THEN Fail(f, target_os)
    ELSE keep_block(f, target_os.i, target_os.line,
                    HostOS = to_ascii_lowercase(target_os.word))

ifos_directive(f, i) == ifos_target(f, assert_word(f.s, i, f.line))

ifdef_var(f, var) ==
    IF var.status # "Ok" THEN Fail(f, var)
    ELSE keep_block(f, var.i, var.line,
                    var.word \in DOMAIN f.values \/ env_var_is_ok(var.word))

ifdef_directive(f, i) == ifdef_var(f, assert_word(f.s, i, f.line))

ifcmp_arg2(f, arg1, condition, arg2) ==
    IF arg2.status # "Ok" THEN Fail(f, arg2)
    ELSE IF condition.word \notin {<<"=", "=">>, <<"!", "=">>}
         THEN Fail(f, expected(<<"=", "=">>, condition.word, arg2.line))
         ELSE keep_block(f, arg2.i, arg2.line,
                         IF condition.word = <<"=", "=">>
                         THEN arg1.arg = arg2.arg
                         ELSE arg1.arg # arg2.arg)

ifcmp_condition(f, arg1, condition) ==
    IF condition.status # "Ok" THEN Fail(f, condition)
    ELSE ifcmp_arg2(f, arg1, condition,
                    read_arg(f.s, condition.i, condition.line))

ifcmp_arg1(f, arg1) ==
    IF arg1.status # "Ok" THEN Fail(f, arg1)
    ELSE ifcmp_condition(f, arg1, assert_word(f.s, arg1.i, arg1.line))

ifcmp_directive(f, i) == ifcmp_arg1(f, read_arg(f.s, i, f.line))

(* else_directive without the negation: the block is kept when the       *)
(* previous directive succeeded.                                          *)
else_directive_same(f, i) == keep_block(f, i, f.line, f.prev)

else_directive(f, i) == keep_block(f, i, f.line, ~f.prev)

define_value(f, name, value) ==
    IF value.status # "Ok" THEN Fail(f, value)
    ELSE [f EXCEPT !.i = value.i, !.line = value.line,
                   !.values = insert(@, name.word, value.arg),
                   !.prev = TRUE]

define_name(f, name) ==
    IF name.status # "Ok" THEN Fail(f, name)
    ELSE define_value(f, name, read_arg(f.s, name.i, name.line))

define_directive(f, i) == define_name(f, assert_name(f.s, i, f.line))

undef_name(f, name) ==
    IF name.status # "Ok" THEN Fail(f, name)
    ELSE [f EXCEPT !.i = name.i, !.line = name.line,
                   !.values = remove(@, name.word),
                   !.prev = name.word \in DOMAIN f.values]

undef_directive(f, i) == undef_name(f, assert_name(f.s, i, f.line))

error_msg(f, msg) ==
    IF msg.status # "Ok" THEN Fail(f, msg)
    ELSE Fail(f, error("@error", <<msg.arg>>, msg.line))

error_directive(f, i) == error_msg(f, read_arg(f.s, i, f.line))

print_msg(f, msg) ==
    IF msg.status # "Ok" THEN Fail(f, msg)
    ELSE [f EXCEPT !.i = msg.i, !.line = msg.line, !.prev = msg.result]

(* @warning and @print: the message goes to standard output. *)
print_directive(f, i) == print_msg(f, read_arg(f.s, i, f.line))

todo(f) == Fail(f, Panic("not yet implemented"))

directive_word(f, directive, i) ==
    CASE directive = <<"i","f","o","s">> -> ifos_directive(f, i)
      [] directive = <<"i","f","d","e","f">> -> ifdef_directive(f, i)
      [] directive = <<"i","f","c","m","p">> -> ifcmp_directive(f, i)
      [] directive = <<"e","l","s","e">> -> else_directive(f, i)
      [] directive = <<"d","e","f","i","n","e">> -> define_directive(f, i)
      [] directive = <<"u","n","d","e","f">> -> undef_directive(f, i)
      [] directive = <<"e","r","r","o","r">> -> error_directive(f, i)
      [] directive \in {<<"w","a","r","n","i","n","g">>,
                        <<"p","r","i","n","t">>} -> print_directive(f, i)
      [] directive \in {<<"i","f">>, <<"e","x","e","c","u","t","e">>,
                        <<"e","v","a","l">>, <<"i","n","c","l","u","d","e">>,
                        <<"m","a","c","r","o">>} -> todo(f)
      [] directive = <<>> ->
             Fail(f, error("Expected directive name", NoArg, f.line))
      [] OTHER ->
             Fail(f, error("Unknown directive 'X'", <<directive>>, f.line))

(* The arm of the at sign: a directive. *)
directive_read(f, w) == directive_word(f, w.result, w.i)

directive_arm(f) == directive_read(f, read_word(f.s, f.i + 1))

(* get_pseudo with the index taken in the order read_pseudos pushes the   *)
(* names (the right-most target first), without len - index.              *)
get_pseudo_as_pushed(list, index) ==
    IF index > Len(list) \/ index = 0 THEN Ok([var |-> <<"n","i","l">>])
    ELSE Ok([var |-> list[index]])

(* pseudos.get(pseudos.len() - index): the subtraction is on usize. *)
get_pseudo(list, index) ==
    IF index > Len(list)
    THEN IF overflowChecks
         THEN Panic("attempt to subtract with overflow")
         ELSE Ok([var |-> <<"n","i","l">>])
    ELSE IF index = 0 THEN Ok([var |-> <<"n","i","l">>])
    ELSE Ok([var |-> list[Len(list) - index + 1]])

(* dollar_arm with the two lookups of a value in the other order: the    *)
(* host environment first, then values.                                   *)
dollar_arm_env_first(f) ==
    LET r == read_with(f.s, f.i + 1, {c \in Char : is_identifier(c)})
        name == IF r.result = <<>> THEN <<"1">> ELSE r.result
    IN  IF IsUsize(name)
        THEN LET ps == IF f.pseudos.some THEN f.pseudos
                       ELSE Some(read_pseudos(f.code))
                 v == get_pseudo(ps.list, ParseUsize(name))
             IN  IF v.status # "Ok"
                 THEN Fail([f EXCEPT !.pseudos = ps], v)
                 ELSE AppendNew([f EXCEPT !.i = r.i, !.pseudos = ps], v.var)
        ELSE IF env_var_is_ok(name)
             THEN AppendNew([f EXCEPT !.i = r.i], HostEnv[name])
        ELSE IF name \in DOMAIN f.values
             THEN AppendNew([f EXCEPT !.i = r.i], f.values[name])
        ELSE Fail(f, error("Value 'X' not found", <<name>>, f.line))

(* The arm of the dollar sign: a value or a pseudo-variable. *)
dollar_arm(f) ==
    LET r == read_with(f.s, f.i + 1, {c \in Char : is_identifier(c)})
        name == IF r.result = <<>> THEN <<"1">> ELSE r.result
    IN  IF IsUsize(name)
        THEN LET ps == IF f.pseudos.some THEN f.pseudos
                       ELSE Some(read_pseudos(f.code))
                 v == get_pseudo(ps.list, ParseUsize(name))
             IN  IF v.status # "Ok"
                 THEN Fail([f EXCEPT !.pseudos = ps], v)
                 ELSE AppendNew([f EXCEPT !.i = r.i, !.pseudos = ps], v.var)
        ELSE IF name \in DOMAIN f.values
             THEN AppendNew([f EXCEPT !.i = r.i], f.values[name])
        ELSE IF env_var_is_ok(name)
             THEN AppendNew([f EXCEPT !.i = r.i], HostEnv[name])
        ELSE Fail(f, error("Value 'X' not found", <<name>>, f.line))

(* The loop that copies a string literal; c is the opening delimiter. *)
RECURSIVE string_loop(_, _)
string_loop(f, c) ==
    IF f.i > Len(f.s) THEN f
    ELSE LET stringc == f.s[f.i]
             g == IF stringc = "\n"
                  THEN [f EXCEPT !.i = @ + 1, !.line = @ + 1, !.prevline = @ + 1]
                  ELSE IF stringc = "\\"
                       THEN [f EXCEPT !.i = @ + 2]
                       ELSE [f EXCEPT !.i = @ + 1]
             h == [g EXCEPT !.code = Append(@, stringc),
                            !.origin = Append(@, Org(f, f.i))]
         IN  IF stringc = c THEN h ELSE string_loop(h, c)

(* The arm of the three string delimiters. *)
string_arm(f) ==
    string_loop([PushFrom(f, f.s[f.i], f.i) EXCEPT !.i = f.i + 1], f.s[f.i])

(* The loop that skips a block comment word by word. *)
RECURSIVE comment_loop(_)
comment_loop(f) ==
    LET word == assert_word(f.s, f.i, f.line)
        g == [f EXCEPT !.i = word.i, !.line = word.line]
    IN  IF word.status # "Ok" \/ ~ends_with(word.word, <<"*", "/">>)
        THEN IF g.i > Len(g.s)
             THEN Fail(g, error("Unterminated comment", NoArg, g.line))
             ELSE comment_loop(g)
        ELSE g

pop_back(f) ==
    IF f.code = <<>> THEN f
    ELSE [f EXCEPT !.code = SubSeq(@, 1, Len(@) - 1),
                   !.origin = SubSeq(@, 1, Len(@) - 1)]

(* The slash arm: comments. *)
slash_arm(f) ==
    IF f.i + 1 <= Len(f.s)
    THEN LET nextc == f.s[f.i + 1]
         IN  IF nextc = "/"
             THEN [f EXCEPT !.i = read_with(f.s, f.i + 2, Char \ {"\n"}).i]
             ELSE IF nextc = "*"
             THEN comment_loop([pop_back(f) EXCEPT !.i = f.i + 2])
             ELSE [PushFrom(f, "/", f.i) EXCEPT !.i = f.i + 1]
    ELSE [f EXCEPT !.i = f.i + 1]

(* The backslash arm. *)
backslash_arm(f) ==
    IF f.i + 1 <= Len(f.s) /\ f.s[f.i + 1] \in {"@", "$"}
    THEN [PushFrom(f, f.s[f.i + 1], f.i + 1) EXCEPT !.i = f.i + 2]
    ELSE [PushFrom(f, "\\", f.i) EXCEPT !.i = f.i + 1]

(* equals_arm without the invalidation: the cached pseudos are kept after *)
(* a bare equals sign.                                                    *)
equals_arm_keep(f) ==
    LET g == PushFrom(f, "=", f.i)
    IN  IF f.i + 1 <= Len(f.s)
        THEN IF f.s[f.i + 1] \in {"=", ">"}
             THEN [PushFrom(g, f.s[f.i + 1], f.i + 1) EXCEPT !.i = f.i + 2]
             ELSE [g EXCEPT !.i = f.i + 1]
        ELSE [g EXCEPT !.i = f.i + 1]

(* The arm of the equals sign. *)
equals_arm(f) ==
    LET g == PushFrom(f, "=", f.i)
    IN  IF f.i + 1 <= Len(f.s)
        THEN IF f.s[f.i + 1] \in {"=", ">"}
             THEN [PushFrom(g, f.s[f.i + 1], f.i + 1) EXCEPT !.i = f.i + 2]
             ELSE [g EXCEPT !.i = f.i + 1, !.pseudos = None]
        ELSE [g EXCEPT !.i = f.i + 1]

(* The arm of the comparison characters. *)
compare_arm(f) ==
    LET g == PushFrom(f, f.s[f.i], f.i)
    IN  IF f.i + 1 <= Len(f.s) /\ f.s[f.i + 1] = "="
        THEN [PushFrom(g, "=", f.i + 1) EXCEPT !.i = f.i + 2]
        ELSE [g EXCEPT !.i = f.i + 1]

(* The default arm. *)
other_arm(f) == [PushFrom(f, f.s[f.i], f.i) EXCEPT !.i = f.i + 1]

(* One iteration of the loop over chars.next(), and the return            *)
(* when the iterator is exhausted.                                        *)
preprocess_step(f) ==
    IF f.i > Len(f.s) THEN [f EXCEPT !.status = "Ok"]
    ELSE LET c == f.s[f.i]
         IN  CASE c = "\n" -> newline_arm(f)
               [] c = "@" -> directive_arm(f)
               [] c = "$" -> dollar_arm(f)
               [] c \in {"'", "\"", Backtick} -> string_arm(f)
               [] c = "/" -> slash_arm(f)
               [] c = "\\" -> backslash_arm(f)
               [] c = "=" -> equals_arm(f)
               [] c \in {"!", ">", "<"} -> compare_arm(f)
               [] OTHER -> other_arm(f)

preprocess_loop(f) ==
    IF f.status # "Running" THEN f ELSE preprocess_loop(preprocess_step(f))

preprocess_code(s, ps, vals, ln, track, off) ==
    preprocess_loop(NewFrame(s, ps, vals, ln, track, off))


-----------------------------------------------------------------------------
(* The inputs: every text made of at most n fragments of a set.           *)

RECURSIVE Concat(_)
Concat(fs) == IF fs = <<>> THEN <<>> ELSE Head(fs) \o Concat(Tail(fs))

Texts(frags, n) ==
    {Concat(fs) : fs \in UNION {[1..k -> frags] : k \in 0..n}}

-----------------------------------------------------------------------------
(* The driver of the preprocessor: the outermost call                     *)
(* preprocess_code(rawcode, None, AHashMap::new(), &mut 1, filename),     *)
(* one loop iteration per step.                                           *)

Running == [status |-> "Running", text |-> "", detail |-> NoArg, errline |-> 0]

(* The reader and the CodeInfo of a run that has neither. *)
NoFile == [bytes |-> <<>>, pos |-> 1, peeked |-> [some |-> FALSE, c |-> ""]]

NoCodeInfo ==
    [line |-> 1, start |-> 0, current |-> 0, size |-> 0, code |-> <<>>,
     tokens |-> <<>>, last |-> "EOF", errored |-> FALSE, printed |-> <<>>]

InitPreprocess(texts, builds) ==
    /\ overflowChecks \in builds
    /\ pc = "preprocess"
    /\ rawcode \in texts
    /\ chars = 1
    /\ code = <<>>
    /\ origin = <<>>
    /\ prev = TRUE
    /\ prevline = 1
    /\ line = 1
    /\ values = EmptyMap
    /\ pseudos = None
    /\ file = NoFile
    /\ codeinfo = NoCodeInfo
    /\ result = Running

(* The locals of the outermost call as a frame. *)
Frame ==
    [status |-> "Running", text |-> "", detail |-> NoArg, errline |-> 0,
     s |-> rawcode, i |-> chars, code |-> code, origin |-> origin,
     prev |-> prev, prevline |-> prevline, line |-> line, values |-> values,
     pseudos |-> pseudos, track |-> TRUE, off |-> 0]

SetFrame(f) ==
    /\ chars' = f.i
    /\ code' = f.code
    /\ origin' = f.origin
    /\ prev' = f.prev
    /\ prevline' = f.prevline
    /\ line' = f.line
    /\ values' = f.values
    /\ pseudos' = f.pseudos
    /\ result' = Failure(f)
    /\ pc' = IF f.status = "Running" THEN "preprocess" ELSE "done"
    /\ UNCHANGED <<scenario, overflowChecks, rawcode, file, codeinfo>>

(* One iteration of the loop of the outermost call. *)
PreprocessStep ==
    /\ pc = "preprocess"
    /\ chars <= Len(rawcode)
    /\ SetFrame(preprocess_step(Frame))

(* The iterator is exhausted: Ok((code, prev)). *)
PreprocessReturn ==
    /\ pc = "preprocess"
    /\ chars > Len(rawcode)
    /\ SetFrame(preprocess_step(Frame))

NextPreprocess == PreprocessStep \/ PreprocessReturn


-----------------------------------------------------------------------------
(* Scenario "lines": plain text, newlines and conditional blocks (H is    *)
(* set in the host environment, N is not).                                *)

MaxLineFrags == 5

LineFrags ==
    { <<"x">>, <<"\n">>, <<" ">>, <<"{">>, <<"}">>,
      <<"@","i","f","d","e","f"," ","H">>,
      <<"@","i","f","d","e","f"," ","N">> }

InitLines ==
    /\ scenario = "lines"
    /\ InitPreprocess(Texts(LineFrags, MaxLineFrags), {FALSE})

SpecLines == InitLines /\ [][NextPreprocess]_vars

Done == pc = "done"

Succeeded == Done /\ result.status = "Ok"

(* C1 (as claimed): line fidelity.  Every character of the output that is *)
(* a copy of a character of the input has as many newlines before it in   *)
(* the output as its original has before it in the input.                 *)
C1_LineFidelity ==
    \A k \in 1..Len(code) :
        origin[k] # 0 =>
            NewlineCount(SubSeq(code, 1, k - 1))
                = NewlineCount(SubSeq(rawcode, 1, origin[k] - 1))

(* C2 (as claimed): a successful preprocess_code returns a text with as   *)
(* many newlines as its input (the inputs of this scenario have no        *)
(* directive argument strings).                                           *)
C2_NewlineCount ==
    Succeeded => NewlineCount(code) = NewlineCount(rawcode)

-----------------------------------------------------------------------------
(* Scenario "text": text without directives and substitutions: string     *)
(* literals, backslashes, slashes and line comments.                      *)

MaxTextFrags == 5

TextFrags ==
    { <<"x">>, <<"\n">>, <<" ">>, <<"\"">>, <<"'">>, <<"\\">>, <<"/">> }

InitText ==
    /\ scenario = "text"
    /\ InitPreprocess(Texts(TextFrags, MaxTextFrags), {FALSE})

SpecText == InitText /\ [][NextPreprocess]_vars

(* What the claim expects of a text without directives: string literals   *)
(* (a backslash escapes the next character) are copied, a line comment is *)
(* dropped up to its newline, a block comment (up to the first star and   *)
(* slash) is replaced by its newlines.  closed is FALSE when a block      *)
(* comment has no end.                                                    *)
RECURSIVE StringEnd(_, _, _)
StringEnd(s, i, q) ==
    IF i > Len(s) THEN Len(s)
    ELSE IF s[i] = "\\" THEN StringEnd(s, i + 2, q)
    ELSE IF s[i] = q THEN i
    ELSE StringEnd(s, i + 1, q)

CommentEnd(s, i) ==
    LET ends == {k \in i..(Len(s) - 1) : s[k] = "*" /\ s[k + 1] = "/"}
    IN  IF ends = {} THEN 0
        ELSE 1 + CHOOSE k \in ends : \A m \in ends : k <= m

RECURSIVE CommentsToNewlines(_, _)
CommentsToNewlines(s, i) ==
    IF i > Len(s) THEN [closed |-> TRUE, text |-> <<>>]
    ELSE IF s[i] \in {"'", "\"", Backtick}
    THEN LET j == StringEnd(s, i + 1, s[i])
             rest == CommentsToNewlines(s, j + 1)
         IN  [rest EXCEPT !.text = SubSeq(s, i, j) \o @]
    ELSE IF s[i] = "/" /\ i < Len(s) /\ s[i + 1] = "/"
    THEN CommentsToNewlines(s, read_with(s, i + 2, Char \ {"\n"}).i)
    ELSE IF s[i] = "/" /\ i < Len(s) /\ s[i + 1] = "*"
    THEN LET j == CommentEnd(s, i + 2)
             rest == CommentsToNewlines(s, j + 1)
         IN  IF j = 0 THEN [closed |-> FALSE, text |-> <<>>]
             ELSE [rest EXCEPT
                   !.text = Repeat("\n", NewlineCount(SubSeq(s, i, j))) \o @]
    ELSE LET rest == CommentsToNewlines(s, i + 1)
         IN  [rest EXCEPT !.text = <<s[i]>> \o @]

(* C5 (as claimed): on a text without directives and substitutions whose  *)
(* block comments are closed, preprocess_code succeeds and returns the    *)
(* text itself, each comment replaced by its newlines.                    *)
C5_Identity ==
    (Done /\ CommentsToNewlines(rawcode, 1).closed) =>
        /\ result.status = "Ok"
        /\ code = CommentsToNewlines(rawcode, 1).text

-----------------------------------------------------------------------------
(* Scenario "pseudos": assignments and pseudo-variables, in a build with  *)
(* overflow checks and in one without.                                    *)

MaxPseudoFrags == 5

PseudoFrags ==
    { <<"a">>, <<"b">>, <<",", " ">>, <<" ", "=", " ">>,
      <<"$", "1">>, <<"$", "2">>, <<"\n">> }

(* a, b = $2, $1 *)
SwapExample ==
    <<"a", ",", " ", "b", " ", "=", " ", "$", "2", ",", " ", "$", "1">>

InitPseudos ==
    /\ scenario = "pseudos"
    /\ InitPreprocess(Texts(PseudoFrags, MaxPseudoFrags) \cup {SwapExample},
                      BOOLEAN)

SpecPseudos == InitPseudos /\ [][NextPreprocess]_vars

(* The name after the dollar sign when the next step of the outermost    *)
(* call is the arm of the dollar sign (a lone dollar sign reads as $1);   *)
(* the empty text otherwise.                                              *)
DollarName ==
    IF pc = "preprocess" /\ chars <= Len(rawcode) /\ rawcode[chars] = "$"
    THEN LET r == read_with(rawcode, chars + 1,
                            {c \in Char : is_identifier(c)})
         IN  IF r.result = <<>> THEN <<"1">> ELSE r.result
    ELSE <<>>

(* The index N when that name is a pseudo-variable $N; 0 otherwise. *)
PseudoIndex == IF IsUsize(DollarName) THEN ParseUsize(DollarName) ELSE 0

(* A target list read forwards from index i to the end of w: identifiers  *)
(* separated by a comma and optional whitespace.                          *)
RECURSIVE ParseTargets(_, _)
ParseTargets(w, i) ==
    LET r == read_with(w, i, {c \in Char : is_identifier(c)})
    IN  IF r.result = <<>> THEN [ok |-> FALSE, list |-> <<>>]
        ELSE IF r.i > Len(w) THEN [ok |-> TRUE, list |-> <<r.result>>]
        ELSE IF w[r.i] # "," THEN [ok |-> FALSE, list |-> <<>>]
        ELSE LET rest == ParseTargets(w, read_with(w, r.i + 1, Whitespace).i)
             IN  [ok |-> rest.ok, list |-> <<r.result>> \o rest.list]

(* The targets t1, ..., tn, left to right, of the nearest assignment of   *)
(* the emitted text: the longest list of identifiers that ends before the *)
(* last equals sign, which has whitespace on both sides (or the end of    *)
(* the text after it), the list not being the continuation of a comma.    *)
(* The empty list when the text does not end in this form.                *)
AssignmentTargets(text) ==
    LET es == {p \in 1..Len(text) : text[p] = "="}
        e == CHOOSE p \in es : \A m \in es : m <= p
        h == skip_whitespace_backwards(text, e - 1)
        head == SubSeq(text, 1, h)
        starts == {q \in 1..h : /\ ParseTargets(head, q).ok
                                /\ (q = 1 \/ ~is_identifier(text[q - 1]))}
        q == CHOOSE s \in starts : \A m \in starts : s <= m
        before == skip_whitespace_backwards(text, q - 1)
    IN  IF es = {} THEN <<>>
        ELSE IF e < 2 \/ ~is_whitespace(text[e - 1]) THEN <<>>
        ELSE IF e < Len(text) /\ ~is_whitespace(text[e + 1]) THEN <<>>
        ELSE IF starts = {} THEN <<>>
        ELSE IF before >= 1 /\ text[before] = "," THEN <<>>
        ELSE ParseTargets(head, q).list

RecoveredTargets ==
    IF pseudos.some THEN pseudos.list ELSE read_pseudos(code)

(* C8 (as claimed): when the recovered list has fewer than N names, $N is *)
(* replaced by nil and preprocessing goes on: no failure, no abort.       *)
C8_MissingPseudoIsNil ==
    [][ (PseudoIndex >= 1 /\ PseudoIndex > Len(RecoveredTargets)) =>
            /\ code' = code \o <<"n", "i", "l">>
            /\ pc' = "preprocess" ]_vars

-----------------------------------------------------------------------------
(* Scenario "values": definitions, their removal and references to values *)
(* (H is set to 7 in the host environment, X and Xy are not set).         *)

MaxValueFrags == 5

(* The definitions: the name, the text V between the quotes and value,   *)
(* the preprocessed text of V (an escaped dollar sign is a dollar sign).  *)
ValueDefs ==
    { [name |-> <<"X">>, raw |-> <<"4", "2">>, value |-> <<"4", "2">>],
      [name |-> <<"H">>, raw |-> <<"1">>, value |-> <<"1">>],
      [name |-> <<"7">>, raw |-> <<"\\", "$">>, value |-> <<"$">>] }

(* @define NAME "V" and a space. *)
DefineText(d) ==
    <<"@", "d", "e", "f", "i", "n", "e", " ">> \o d.name \o <<" ", "\"">>
        \o d.raw \o <<"\"", " ">>

ValueFrags ==
    {DefineText(d) : d \in ValueDefs}
        \cup { <<"@", "u", "n", "d", "e", "f", " ", "X", " ">>,
               <<"$", "X">>, <<"$", "H">>, <<"$", "7">>, <<"y">> }

(* @define X "42" local y = $X *)
DefineExample ==
    DefineText([name |-> <<"X">>, raw |-> <<"4", "2">>])
        \o <<"l", "o", "c", "a", "l", " ", "y", " ", "=", " ", "$", "X">>

InitValues ==
    /\ scenario = "values"
    /\ InitPreprocess(Texts(ValueFrags, MaxValueFrags) \cup {DefineExample},
                      {FALSE})

SpecValues == InitValues /\ [][NextPreprocess]_vars

(* The next characters the outermost call reads are the text w. *)
NextIs(w) ==
    /\ pc = "preprocess"
    /\ chars + Len(w) - 1 <= Len(rawcode)
    /\ SubSeq(rawcode, chars, chars + Len(w) - 1) = w

(* What the claims expect of a step over @define NAME "V": the map with   *)
(* NAME bound to V, nothing emitted.                                      *)
Defines(d) ==
    /\ values' = [n \in DOMAIN values \cup {d.name} |->
                     IF n = d.name THEN d.value ELSE values[n]]
    /\ code' = code
    /\ pc' = "preprocess"

(* What the claims expect of a step over $NAME: the value of NAME in      *)
(* values, else in the host environment, else the failure.                *)
Substitutes(name) ==
    IF name \in DOMAIN values
    THEN code' = code \o values[name] /\ pc' = "preprocess"
    ELSE IF name \in DOMAIN HostEnv
    THEN code' = code \o HostEnv[name] /\ pc' = "preprocess"
    ELSE /\ pc' = "done"
         /\ result' = error("Value 'X' not found", <<name>>, line)

(* C6 (as claimed): @define NAME "V" binds NAME to V and every $NAME of a *)
(* bound NAME is replaced by its value; a $NAME is looked up in values,   *)
(* then in the host environment, and fails when in neither; the example   *)
(* preprocesses to local y = 42.                                          *)
C6_Substitution ==
    [][ /\ \A d \in ValueDefs : NextIs(DefineText(d)) => Defines(d)
        /\ DollarName \in DOMAIN values =>
               code' = code \o values[DollarName]
        /\ (DollarName # <<>> /\ ~IsUsize(DollarName)) =>
               Substitutes(DollarName)
        /\ (pc' = "done" /\ rawcode = DefineExample) =>
               /\ result'.status = "Ok"
               /\ code' = <<"l", "o", "c", "a", "l", " ", "y", " ", "=", " ",
                            "4", "2">> ]_vars

(* C6 (amended): the same for a NAME that is not an unsigned integer, and *)
(* the example preprocesses to local y = 42 after the space that follows  *)
(* the directive.                                                         *)
C6_SubstitutionOfNames ==
    [][ /\ \A d \in ValueDefs : NextIs(DefineText(d)) => Defines(d)
        /\ (DollarName # <<>> /\ ~IsUsize(DollarName)) =>
               Substitutes(DollarName)
        /\ (pc' = "done" /\ rawcode = DefineExample) =>
               /\ result'.status = "Ok"
               /\ code' = <<" ", "l", "o", "c", "a", "l", " ", "y", " ", "=",
                            " ", "4", "2">> ]_vars

(* The case of C6: H, set in the host environment, has been defined and   *)
(* referred to: the value of the definition is emitted.                   *)
C6_Witness ==
    /\ Done
    /\ rawcode = DefineText([name |-> <<"H">>, raw |-> <<"1">>])
                     \o <<"$", "H">>
    /\ code = <<" ", "1">>

-----------------------------------------------------------------------------
(* Scenario "branches": conditional blocks and @else after directives of  *)
(* every outcome (H is set in the host environment, N is not).            *)

MaxBranchFrags == 5

At == <<"@">>

Ifdef(name) == At \o <<"i", "f", "d", "e", "f", " ">> \o name \o <<" ">>

Else == At \o <<"e", "l", "s", "e", " ">>

DefineN == DefineText([name |-> <<"N">>, raw |-> <<"1">>])

UndefN == At \o <<"u", "n", "d", "e", "f", " ", "N", " ">>

(* The bodies of the blocks: each preprocesses to itself. *)
BranchBodies == { <<"x">>, <<"y", "\n">> }

Block(body) == <<"{">> \o body \o <<"}">>

BranchNames == { <<"H">>, <<"N">> }

BranchFrags ==
    {Ifdef(n) : n \in BranchNames} \cup {Block(b) : b \in BranchBodies}
        \cup {Else, DefineN, UndefN, <<" ">>}

InitBranches ==
    /\ scenario = "branches"
    /\ InitPreprocess(Texts(BranchFrags, MaxBranchFrags), {FALSE})

SpecBranches == InitBranches /\ [][NextPreprocess]_vars

(* NAME is in values or in the host environment. *)
IsDefined(name) == name \in DOMAIN values \/ name \in DOMAIN HostEnv

(* What a block contributes: its preprocessed text when kept, its         *)
(* newlines when not.                                                     *)
Contribution(body, kept) ==
    IF kept THEN body ELSE Repeat("\n", NewlineCount(body))

(* The next step of the outermost call is the arm of a directive. *)
AtDirective ==
    pc = "preprocess" /\ chars <= Len(rawcode) /\ rawcode[chars] = "@"

(* C9: @ifdef NAME {A} keeps A iff NAME is in values or in the host       *)
(* environment; @else {B} keeps B iff the outcome of the most recent      *)
(* directive of the region (prev: the condition of a conditional, true    *)
(* for @define, whether the name was bound for @undef) was false; a block *)
(* that is not kept contributes its newlines; so the text that ends with  *)
(* @ifdef NAME {A} W @else {B}, W whitespace, yields exactly one of A, B. *)
C9_ExactlyOneBranch ==
    [][ /\ \A n \in BranchNames : \A a \in BranchBodies :
               NextIs(Ifdef(n) \o Block(a)) =>
                   /\ code' = code \o Contribution(a, IsDefined(n))
                   /\ prev' = IsDefined(n)
                   /\ pc' = "preprocess"
        /\ \A b \in BranchBodies :
               NextIs(Else \o Block(b)) =>
                   /\ code' = code \o Contribution(b, ~prev)
                   /\ prev' = ~prev
                   /\ pc' = "preprocess"
        /\ NextIs(DefineN) => prev'
        /\ NextIs(UndefN) => (prev' <=> <<"N">> \in DOMAIN values)
        /\ (pc = "preprocess" /\ ~AtDirective) => prev' = prev
        /\ \A n \in BranchNames : \A a, b \in BranchBodies :
           \A w \in {<<>>, <<" ">>} :
               LET pair == Ifdef(n) \o Block(a) \o w \o Else \o Block(b)
               IN  (pc' = "done" /\ result'.status = "Ok"
                        /\ ends_with(rawcode, pair)) =>
                       ends_with(code', Contribution(a, IsDefined(n)) \o w
                                     \o Contribution(b, ~IsDefined(n))) ]_vars

(* The case of C9: N is not defined, and of @ifdef N {x} @else {y} with a *)
(* newline after y the second block alone has been kept.                  *)
C9_Witness ==
    /\ Succeeded
    /\ rawcode = Ifdef(<<"N">>) \o Block(<<"x">>) \o <<" ">> \o Else
                     \o Block(<<"y", "\n">>)
    /\ code = <<" ", "y", "\n">>

-----------------------------------------------------------------------------
(* Scenario "scopes": definitions and references inside and outside the   *)
(* blocks of a conditional that is kept (H is set in the host             *)
(* environment, X is not).                                                *)

MaxScopeFrags == 5

DefineX == DefineText([name |-> <<"X">>, raw |-> <<"1">>])

UndefX == At \o <<"u", "n", "d", "e", "f", " ", "X", " ">>

IfdefH == Ifdef(<<"H">>)

ScopeFrags ==
    { DefineX, UndefX, IfdefH \o <<"{">>, <<"}">>, <<"$", "X">>,
      Ifdef(<<"X">>) \o Block(<<"y">>) }

InitScopes ==
    /\ scenario = "scopes"
    /\ InitPreprocess(Texts(ScopeFrags, MaxScopeFrags), {FALSE})

SpecScopes == InitScopes /\ [][NextPreprocess]_vars

(* The next step of the outermost call is a directive that takes a block. *)
AtBlockDirective ==
    /\ AtDirective
    /\ read_word(rawcode, chars + 1).result
           \in { <<"i", "f", "o", "s">>, <<"i", "f", "d", "e", "f">>,
                 <<"i", "f", "c", "m", "p">>, <<"e", "l", "s", "e">> }

(* C10: a step over a directive with a block leaves values as it was,     *)
(* whatever the block defines or removes; and the body of a kept block    *)
(* sees no name of the enclosing region: whatever values holds, $X in the *)
(* body fails unless the body itself defines X, and @ifdef X in the body  *)
(* is false.                                                              *)
C10_BlockScope ==
    [][ /\ AtBlockDirective => values' = values
        /\ NextIs(IfdefH \o Block(<<"$", "X">>)) =>
               /\ pc' = "done"
               /\ result' = error("Value 'X' not found", <<<<"X">>>>, line)
        /\ NextIs(IfdefH \o Block(Ifdef(<<"X">>) \o Block(<<"y">>))) =>
               code' = code /\ pc' = "preprocess"
        /\ NextIs(IfdefH \o Block(DefineX \o <<"$", "X">>)) =>
               code' = code \o <<" ", "1">> /\ pc' = "preprocess"
        /\ NextIs(IfdefH \o Block(UndefX)) =>
               code' = code \o <<" ">> /\ pc' = "preprocess" ]_vars

(* The case of C10: X is defined in the enclosing region, and the body of *)
(* the kept block that refers to it has failed.                           *)
C10_Witness ==
    /\ Done
    /\ rawcode = DefineX \o IfdefH \o Block(<<"$", "X">>)
    /\ <<"X">> \in DOMAIN values
    /\ result = error("Value 'X' not found", <<<<"X">>>>, 1)

-----------------------------------------------------------------------------
(* analyze_file.  The reader is the bytes of the file, the position pos   *)
(* of the next byte of the buffer and the peeked character.  A byte is a  *)
(* character of Char (ASCII) or one of three bytes above 0x7F: 0xC3, the  *)
(* lead byte of a scalar of two bytes, 0xA9, a continuation byte (0xC3    *)
(* 0xA9 is U+00E9), and 0xFF, which no UTF-8 text holds.                  *)

LeadByte == "<C3>"

ContinuationByte == "<A9>"

InvalidByte == "<FF>"

NonAscii == {LeadByte, ContinuationByte, InvalidByte}

Byte == Char \cup NonAscii

(* The scalar U+00E9 that the bytes 0xC3 0xA9 encode. *)
EAcute == "<U+00E9>"

(* The byte 0 that pads the buffer of the arm of a byte above 0x7F. *)
Zero == "<00>"

(* utf8_decode::decode on the bytes from i on: the scalar and the index   *)
(* after it, or the error of the decoder.                                 *)
decode(bytes, i) ==
    IF bytes[i] \in Char \cup {Zero}
    THEN [ok |-> TRUE, c |-> bytes[i], next |-> i + 1]
    ELSE IF bytes[i] = LeadByte /\ i < Len(bytes)
            /\ bytes[i + 1] = ContinuationByte
    THEN [ok |-> TRUE, c |-> EAcute, next |-> i + 2]
    ELSE [ok |-> FALSE, c |-> "", next |-> i + 1]

(* Decoder::new(bytes): the scalars up to the end or to the first error.  *)
RECURSIVE Decoder(_, _, _)
Decoder(bytes, i, out) ==
    IF i > Len(bytes) THEN [ok |-> TRUE, chars |-> out]
    ELSE LET d == decode(bytes, i)
         IN  IF d.ok THEN Decoder(bytes, d.next, Append(out, d.c))
             ELSE [ok |-> FALSE, chars |-> out]

NoChar == [some |-> FALSE, c |-> ""]

SomeChar(c) == [some |-> TRUE, c |-> c]

OpenFile(bytes) == [bytes |-> bytes, pos |-> 1, peeked |-> NoChar]

read_char(f) ==
    IF f.peeked.some
    THEN [file |-> [f EXCEPT !.peeked = NoChar], c |-> f.peeked]
    ELSE IF f.pos <= Len(f.bytes)
    THEN [file |-> [f EXCEPT !.pos = @ + 1], c |-> SomeChar(f.bytes[f.pos])]
    ELSE [file |-> f, c |-> NoChar]

peek_char(f) ==
    IF f.peeked.some THEN [file |-> f, c |-> f.peeked]
    ELSE LET r == read_char(f)
         IN  [file |-> [r.file EXCEPT !.peeked = r.c], c |-> r.c]

(* BufRead::read_until on the buffer: the bytes up to and including the   *)
(* delimiter, or up to the end of the file.  It does not see peeked.      *)
buffer_read_until(f, byte) ==
    LET r == read_with(f.bytes, f.pos, Byte \ {byte})
        next == IF r.i <= Len(f.bytes) THEN r.i + 1 ELSE r.i
    IN  [file |-> [f EXCEPT !.pos = next],
         bytes |-> SubSeq(f.bytes, f.pos, next - 1)]

(* BufRead::read_line. *)
buffer_read_line(f) == buffer_read_until(f, "\n")

(* A frame holds the locals of analyze_file: file, code and line. *)
AnalyzeFrame(f, out, ln) ==
    [status |-> "Running", text |-> "", detail |-> NoArg, errline |-> 0,
     file |-> f, code |-> out, line |-> ln]

(* add_newlines(&mut code, newlines, &mut line). *)
add_newlines(a, newlines) ==
    [a EXCEPT !.code = @ \o Repeat("\n", NewlineCount(newlines)),
              !.line = @ + NewlineCount(newlines)]

(* The loop that reads a string literal up to a delimiter that does not   *)
(* follow a backslash.  At the end of the file read_until reads nothing:  *)
(* when the condition still holds the loop never ends.                    *)
RECURSIVE read_rawstring(_, _, _)
read_rawstring(f, c, rawstring) ==
    LET r == buffer_read_until(f, c)
        read == rawstring \o r.bytes
    IN  IF Len(read) >= 2 /\ read[Len(read) - 1] = "\\"
        THEN IF r.bytes = <<>>
             THEN [hang |-> TRUE, file |-> r.file, rawstring |-> read]
             ELSE read_rawstring(r.file, c, read)
        ELSE [hang |-> FALSE, file |-> r.file, rawstring |-> read]

(* The arm of the string delimiters; c has been read. *)
analyze_string(a, c) ==
    LET r == read_rawstring(a.file, c, <<>>)
        d == Decoder(r.rawstring, 1, <<>>)
        b == [a EXCEPT !.file = r.file,
                       !.code = Append(@, c) \o d.chars,
                       !.line = @ + NewlineCount(d.chars)]
    IN  IF r.hang THEN [a EXCEPT !.status = "Hang", !.file = r.file,
                                 !.code = Append(@, c)]
        ELSE IF d.ok THEN b
        ELSE Fail(b, error("invalid UTF-8", NoArg, 0))

(* The line comment: the second slash has been peeked. *)
analyze_line_comment(a) ==
    [a EXCEPT !.file = buffer_read_line(read_char(a.file).file).file,
              !.code = Append(@, "\n"),
              !.line = @ + 1]

(* The loop of the block comment: read up to a star, then one character.  *)
RECURSIVE analyze_comment_loop(_, _)
analyze_comment_loop(a, newlines) ==
    LET r == buffer_read_until(a.file, "*")
        read == newlines \o r.bytes
        fc == read_char(r.file)
        b == [a EXCEPT !.file = fc.file]
    IN  IF ~fc.c.some
        THEN Fail(add_newlines(b, read),
                  error("Unterminated comment", NoArg,
                        a.line + NewlineCount(read)))
        ELSE IF fc.c.c # "/" THEN analyze_comment_loop(b, read)
        ELSE add_newlines(b, read)

(* The block comment: the star has been peeked. *)
analyze_block_comment(a) ==
    analyze_comment_loop([a EXCEPT !.file = read_char(a.file).file], <<>>)

(* The arm of the slash. *)
analyze_slash(a) ==
    LET nc == peek_char(a.file)
        b == [a EXCEPT !.file = nc.file]
    IN  IF ~nc.c.some THEN [b EXCEPT !.code = Append(@, "/")]
        ELSE IF nc.c.c = "/" THEN analyze_line_comment(b)
        ELSE IF nc.c.c = "*" THEN analyze_block_comment(b)
        ELSE [b EXCEPT !.code = Append(@, "/")]

(* The arm of a byte above 0x7F: up to three more bytes are read into a   *)
(* buffer of zeros, the four bytes are decoded, and the arm returns the   *)
(* error of the decoder or Invalid character with the scalar decoded.     *)
analyze_non_ascii(a, c) ==
    LET left == Len(a.file.bytes) - a.file.pos + 1
        n == IF left < 3 THEN left ELSE 3
        buf == SubSeq(<<c>> \o SubSeq(a.file.bytes, a.file.pos,
                                      a.file.pos + n - 1)
                          \o <<Zero, Zero, Zero>>, 1, 4)
        d == decode(buf, 1)
        b == [a EXCEPT !.file.pos = @ + n]
    IN  IF d.ok THEN Fail(b, error("Invalid character 'X'", <<<<d.c>>>>,
                                   a.line))
        ELSE Fail(b, error("invalid UTF-8", NoArg, 0))

(* One iteration of the loop over file.read_char(), and the return when   *)
(* the file is exhausted.                                                 *)
analyze_step(a) ==
    LET r == read_char(a.file)
        b == [a EXCEPT !.file = r.file]
        c == r.c.c
    IN  IF ~r.c.some THEN [a EXCEPT !.status = "Ok"]
        ELSE CASE c = "\n" -> [b EXCEPT !.line = @ + 1, !.code = Append(@, c)]
               [] c \in {"'", "\"", Backtick} -> analyze_string(b, c)
               [] c = "/" -> analyze_slash(b)
               [] c \in Char -> [b EXCEPT !.code = Append(@, c)]
               [] OTHER -> analyze_non_ascii(b, c)

-----------------------------------------------------------------------------
(* The driver of the analyzer: analyze_file on a file, one loop iteration *)
(* per step.                                                              *)

InitAnalyze(files) ==
    /\ overflowChecks = FALSE
    /\ pc = "analyze"
    /\ file \in {OpenFile(bytes) : bytes \in files}
    /\ code = <<>>
    /\ line = 1
    /\ rawcode = <<>>
    /\ chars = 1
    /\ origin = <<>>
    /\ prev = TRUE
    /\ prevline = 1
    /\ values = EmptyMap
    /\ pseudos = None
    /\ codeinfo = NoCodeInfo
    /\ result = Running

SetAnalyzeFrame(a) ==
    /\ file' = a.file
    /\ code' = a.code
    /\ line' = a.line
    /\ result' = Failure(a)
    /\ pc' = IF a.status = "Running" THEN "analyze" ELSE "done"
    /\ UNCHANGED <<scenario, overflowChecks, rawcode, chars, origin, prev,
                   prevline, values, pseudos, codeinfo>>

(* One iteration of the loop: read_char returned a character. *)
AnalyzeStep ==
    /\ pc = "analyze"
    /\ read_char(file).c.some
    /\ SetAnalyzeFrame(analyze_step(AnalyzeFrame(file, code, line)))

(* The file is exhausted: Ok(code). *)
AnalyzeReturn ==
    /\ pc = "analyze"
    /\ ~read_char(file).c.some
    /\ SetAnalyzeFrame(analyze_step(AnalyzeFrame(file, code, line)))

NextAnalyze == AnalyzeStep \/ AnalyzeReturn

-----------------------------------------------------------------------------
(* Scenario "comments": files with block comments, line comments that end *)
(* with a newline, and string literals.                                   *)

MaxCommentFrags == 5

CommentFrags ==
    { <<"/", "*">>, <<"*", "/">>, <<"*">>, <<"\n">>, <<"x">>, <<"\"">>,
      <<"/", "/", "c", "\n">> }

InitComments ==
    /\ scenario = "comments"
    /\ InitAnalyze(Texts(CommentFrags, MaxCommentFrags))

SpecComments == InitComments /\ [][NextAnalyze]_vars

(* C4 (as claimed): when analyze_file succeeds, the text it returns has   *)
(* as many newlines as the file.                                          *)
C4_NewlineCount ==
    Succeeded => NewlineCount(code) = NewlineCount(file.bytes)

-----------------------------------------------------------------------------
(* scan_code.  The CodeInfo i is a record; positions count from 0 as in   *)
(* the source, so the character at position pos is code[pos + 1].         *)
(* printed is the standard output: the diagnostics of warning.  A token   *)
(* carries the history field at: the position of the first character of   *)
(* its lexeme.                                                            *)

(* The character 0 that at() returns past the end of the code. *)
Nul == "<nul>"

CodeInfo_new(text) ==
    [line |-> 1, start |-> 0, current |-> 0, size |-> Len(text),
     code |-> text, tokens |-> <<>>, last |-> "EOF", errored |-> FALSE,
     printed |-> <<>>]

ended(self) == self.current >= self.size

at(self, pos) == IF pos >= self.size THEN Nul ELSE self.code[pos + 1]

advance(self) ==
    [self |-> [self EXCEPT !.current = @ + 1], c |-> at(self, self.current)]

compare(self, want) ==
    IF ended(self) \/ at(self, self.current) # want
    THEN [self |-> self, equal |-> FALSE]
    ELSE [self |-> [self EXCEPT !.current = @ + 1], equal |-> TRUE]

peek(self, pos) == at(self, self.current + pos)

look_back(self, pos) == at(self, self.current - pos - 1)

substr(self, start, end) ==
    SubSeq(self.code, start + 1, IF end < self.size THEN end ELSE self.size)

Token_new(kind, lexeme, ln, pos) ==
    [kind |-> kind, lexeme |-> lexeme, line |-> ln, at |-> pos]

add_literal_token(self, kind, literal) ==
    [self EXCEPT
        !.tokens = Append(@, Token_new(kind, literal, self.line, self.start))]

add_token(self, kind) ==
    [self EXCEPT
        !.last = kind,
        !.tokens = Append(@, Token_new(kind,
                                       substr(self, self.start, self.current),
                                       self.line, self.start))]

(* warning without the flag: the message is printed and errored is left   *)
(* as it was.                                                             *)
warning_unflagged(self, message, arg) ==
    [self EXCEPT
        !.printed = Append(@, [message |-> message, detail |-> arg,
                               line |-> self.line])]

(* warning: the message (with the text spliced into it) and the line. *)
warning(self, message, arg) ==
    [self EXCEPT
        !.errored = TRUE,
        !.printed = Append(@, [message |-> message, detail |-> arg,
                               line |-> self.line])]

reserved(self, keyword, msg) == warning(self, msg, <<keyword>>)

(* while check(peek(0)) { current += 1 }, check given as a set. *)
advance_while(self, check) ==
    [self EXCEPT !.current =
        CHOOSE p \in self.current..(IF self.size > self.current
                                    THEN self.size ELSE self.current) :
            /\ at(self, p) \notin check
            /\ \A k \in self.current..(p - 1) : at(self, k) \in check]

HexDigit == Digit \cup {"a", "b", "c", "d", "e", "f"}
                  \cup {"A", "B", "C", "D", "E", "F"}

BinDigit == {"0", "1"}

read_number_fraction(self, check) ==
    IF peek(self, 0) = "." /\ peek(self, 1) \in check
    THEN advance_while([self EXCEPT !.current = @ + 1], check)
    ELSE self

read_number_exponent(self) ==
    IF peek(self, 0) \in {"e", "E"}
    THEN LET c == peek(self, 1)
             signed == IF is_ascii_digit(c) THEN self
                       ELSE IF c = "-" /\ is_ascii_digit(peek(self, 2))
                       THEN [self EXCEPT !.current = @ + 1]
                       ELSE warning(self, "Malformed number", NoArg)
         IN  advance_while([signed EXCEPT !.current = @ + 1], Digit)
    ELSE self

read_number_suffix(self) ==
    LET llcheck == substr(self, self.current, self.current + 2)
    IN  IF llcheck = <<"L", "L">> THEN [self EXCEPT !.current = @ + 2]
        ELSE IF llcheck = <<"U", "L">>
        THEN IF peek(self, 2) = "L" THEN [self EXCEPT !.current = @ + 3]
             ELSE warning(self, "Malformed number", NoArg)
        ELSE self

read_number_body(self, start, simple) ==
    IF simple THEN read_number_exponent(self)
    ELSE IF self.current = start
    THEN warning(self, "Malformed number", NoArg)
    ELSE self

read_number(self, check, simple) ==
    add_token(
        read_number_suffix(
            read_number_body(
                read_number_fraction(advance_while(self, check), check),
                self.current, simple)),
        "NUMBER")

(* The loop of read_string: the position after it and aline. *)
RECURSIVE read_string_loop(_, _, _)
read_string_loop(self, strend, aline) ==
    IF ~ended(self) /\ peek(self, 0) # strend
    THEN IF peek(self, 0) = "\\"
         THEN read_string_loop([self EXCEPT !.current = @ + 2], strend, aline)
         ELSE IF peek(self, 0) = "\n"
         THEN read_string_loop([self EXCEPT !.current = @ + 1], strend,
                               aline + 1)
         ELSE read_string_loop([self EXCEPT !.current = @ + 1], strend, aline)
    ELSE [self |-> self, aline |-> aline]

read_string_end(r) ==
    IF ended(r.self)
    THEN [warning(r.self, "Unterminated string", NoArg)
             EXCEPT !.line = r.aline]
    ELSE [add_literal_token(
              [r.self EXCEPT !.current = @ + 1], "STRING",
              Retain(substr(r.self, r.self.start, r.self.current + 1),
                     {"\r", "\n", "\t"}))
             EXCEPT !.line = r.aline]

read_string(self, strend) ==
    read_string_end(read_string_loop(self, strend, self.line))

(* The loop of read_raw_string. *)
RECURSIVE read_raw_string_loop(_, _)
read_raw_string_loop(self, aline) ==
    IF ~ended(self) /\ (peek(self, 0) # Backtick \/ look_back(self, 0) = "\\")
    THEN read_raw_string_loop([self EXCEPT !.current = @ + 1],
                              IF peek(self, 0) = "\n" THEN aline + 1
                              ELSE aline)
    ELSE [self |-> self, aline |-> aline]

(* literal.contains(pattern) *)
contains(literal, pattern) ==
    \E k \in 1..(Len(literal) - Len(pattern) + 1) :
        SubSeq(literal, k, k + Len(pattern) - 1) = pattern

(* The equals signs of the long bracket of a raw string. *)
RECURSIVE long_brackets(_, _, _)
long_brackets(literal, brackets, must) ==
    IF must \/ contains(literal, <<"]">> \o brackets \o <<"]">>)
    THEN long_brackets(literal, brackets \o <<"=">>, FALSE)
    ELSE brackets

(* literal.replace: every backslash and grave accent becomes a grave      *)
(* accent.                                                                *)
RECURSIVE replace_escaped(_)
replace_escaped(literal) ==
    IF Len(literal) < 2 THEN literal
    ELSE IF literal[1] = "\\" /\ literal[2] = Backtick
    THEN <<Backtick>> \o replace_escaped(SubSeq(literal, 3, Len(literal)))
    ELSE <<literal[1]>> \o replace_escaped(Tail(literal))

raw_string_lexeme(literal) ==
    LET brackets == long_brackets(literal, <<>>,
                                  literal # <<>>
                                      /\ literal[Len(literal)] = "]")
    IN  <<"[">> \o brackets \o <<"[">> \o replace_escaped(literal)
            \o <<"]">> \o brackets \o <<"]">>

read_raw_string_end(r) ==
    IF ended(r.self)
    THEN [warning(r.self, "Unterminated string", NoArg)
             EXCEPT !.line = r.aline]
    ELSE [add_literal_token(
              [r.self EXCEPT !.current = @ + 1], "STRING",
              raw_string_lexeme(substr(r.self, r.self.start + 1,
                                       r.self.current)))
             EXCEPT !.line = r.aline]

read_raw_string(self) ==
    read_raw_string_end(read_raw_string_loop(self, self.line))

read_identifier(self) ==
    advance_while(self, {c \in Char : is_identifier(c)})

read_comment(self) ==
    IF ended(self) THEN self ELSE advance_while(self, Char \ {"\n"})

RECURSIVE read_multiline_comment_loop(_)
read_multiline_comment_loop(self) ==
    IF ~(ended(self) \/ (peek(self, 0) = "*" /\ peek(self, 1) = "/"))
    THEN read_multiline_comment_loop(
             [self EXCEPT !.current = @ + 1,
                          !.line = IF peek(self, 0) = "\n" THEN @ + 1 ELSE @])
    ELSE self

read_multiline_comment_end(self) ==
    IF ended(self) THEN warning(self, "Unterminated comment", NoArg)
    ELSE [self EXCEPT !.current = @ + 2]

read_multiline_comment(self) ==
    read_multiline_comment_end(read_multiline_comment_loop(self))

(* The closure of the entry of the question mark and the colon. *)
safe_double_colon_end(r) ==
    IF r.equal THEN add_token(r.self, "SAFE_DOUBLE_COLON")
    ELSE [r.self EXCEPT !.current = @ - 1]

safe_double_colon(self) == safe_double_colon_end(compare(self, ":"))

(* SymbolType *)
JUST(kind) == [type |-> "JUST", kind |-> kind]

FUNCTION(f) == [type |-> "FUNCTION", f |-> f]

SYMBOLS(symbols, default) ==
    [type |-> "SYMBOLS", symbols |-> symbols, default |-> default]

(* The functions of the table, by name. *)
call(f, self) ==
    CASE f = "read_comment" -> read_comment(self)
      [] f = "read_multiline_comment" -> read_multiline_comment(self)
      [] f = "deprecated ?=" ->
             warning(self, "'?=' is deprecated and was replaced with '&&='",
                     NoArg)
      [] f = "deprecated :=" ->
             warning(self, "':=' is deprecated and was replaced with '||='",
                     NoArg)
      [] f = "safe double colon" -> safe_double_colon(self)
      [] f = "newline" -> [self EXCEPT !.line = @ + 1]
      [] f = "read_string double" -> read_string(self, "\"")
      [] f = "read_string single" -> read_string(self, "'")
      [] f = "read_raw_string" -> read_raw_string(self)

Assign(kind) == "=" :> JUST(kind)

SymbolsTable ==
    ("(" :> JUST("ROUND_BRACKET_OPEN")) @@
    (")" :> JUST("ROUND_BRACKET_CLOSED")) @@
    ("[" :> JUST("SQUARE_BRACKET_OPEN")) @@
    ("]" :> JUST("SQUARE_BRACKET_CLOSED")) @@
    ("{" :> JUST("CURLY_BRACKET_OPEN")) @@
    ("}" :> JUST("CURLY_BRACKET_CLOSED")) @@
    ("," :> JUST("COMMA")) @@
    ("." :> SYMBOLS("." :> SYMBOLS(("." :> JUST("THREEDOTS")) @@
                                   Assign("CONCATENATE"), "TWODOTS"),
                    "DOT")) @@
    (";" :> JUST("SEMICOLON")) @@
    ("+" :> SYMBOLS(Assign("INCREASE"), "PLUS")) @@
    ("-" :> SYMBOLS(Assign("DECREASE"), "MINUS")) @@
    ("*" :> SYMBOLS(Assign("MULTIPLY"), "STAR")) @@
    ("^" :> SYMBOLS(Assign("EXPONENTIATE") @@ ("^" :> JUST("BIT_XOR")),
                    "CARET")) @@
    ("#" :> JUST("HASHTAG")) @@
    ("/" :> SYMBOLS(("/" :> FUNCTION("read_comment")) @@
                    ("*" :> FUNCTION("read_multiline_comment")) @@
                    Assign("DIVIDE") @@
                    ("_" :> JUST("FLOOR_DIVISION")), "SLASH")) @@
    ("%" :> SYMBOLS(Assign("MODULATE"), "PERCENTUAL")) @@
    ("!" :> SYMBOLS(Assign("NOT_EQUAL"), "NOT")) @@
    ("~" :> JUST("BIT_NOT")) @@
    ("=" :> SYMBOLS(Assign("EQUAL") @@ (">" :> JUST("ARROW")), "DEFINE")) @@
    ("<" :> SYMBOLS(Assign("SMALLER_EQUAL") @@ ("<" :> JUST("LEFT_SHIFT")),
                    "SMALLER")) @@
    (">" :> SYMBOLS(Assign("BIGGER_EQUAL") @@ (">" :> JUST("RIGHT_SHIFT")),
                    "BIGGER")) @@
    ("?" :> SYMBOLS(("=" :> FUNCTION("deprecated ?=")) @@
                    (">" :> JUST("SAFE_EXPRESSION")) @@
                    ("." :> JUST("SAFEDOT")) @@
                    (":" :> FUNCTION("safe double colon")) @@
                    ("[" :> JUST("SAFE_SQUARE_BRACKET")),
                    "QUESTION_MARK")) @@
    ("&" :> SYMBOLS("&" :> JUST("AND"), "BIT_AND")) @@
    (":" :> SYMBOLS((":" :> JUST("DOUBLE_COLON")) @@
                    ("=" :> FUNCTION("deprecated :=")), "COLON")) @@
    ("|" :> SYMBOLS("|" :> JUST("OR"), "BIT_OR")) @@
    ("\n" :> FUNCTION("newline")) @@
    ("\"" :> FUNCTION("read_string double")) @@
    ("'" :> FUNCTION("read_string single")) @@
    (Backtick :> FUNCTION("read_raw_string"))

KEYWORDS ==
    (<<"a", "n", "d">> :> [type |-> "RESERVED", kind |-> "IDENTIFIER",
        msg |-> "'and' operators in Clue are made with '&&'"]) @@
    (<<"n", "o", "t">> :> [type |-> "RESERVED", kind |-> "IDENTIFIER",
        msg |-> "'not' operators in Clue are made with '!'"]) @@
    (<<"o", "r">> :> [type |-> "RESERVED", kind |-> "IDENTIFIER",
        msg |-> "'or' operators in Clue are made with '||'"]) @@
    (<<"d", "o">> :> [type |-> "RESERVED", kind |-> "IDENTIFIER",
        msg |-> "'do ... end' blocks in Clue are made like this: '{ ... }'"]) @@
    (<<"e", "n", "d">> :> [type |-> "RESERVED", kind |-> "IDENTIFIER",
        msg |-> "code blocks in Clue are closed with '}'"]) @@
    (<<"f", "u", "n", "c", "t", "i", "o", "n">> :> [type |-> "RESERVED", kind |-> "IDENTIFIER",
        msg |-> "functions in Clue are defined with the 'fn' keyword"]) @@
    (<<"r", "e", "p", "e", "a", "t">> :> [type |-> "RESERVED", kind |-> "IDENTIFIER",
        msg |-> "'repeat ... until x' loops in Clue are made like this: 'loop { ... } until x'"]) @@
    (<<"t", "h", "e", "n">> :> [type |-> "RESERVED", kind |-> "IDENTIFIER",
        msg |-> "code blocks in Clue are opened with '{'"]) @@
    (<<"i", "f">> :> [type |-> "LUA", kind |-> "IF", msg |-> ""]) @@
    (<<"e", "l", "s", "e", "i", "f">> :> [type |-> "LUA", kind |-> "ELSEIF", msg |-> ""]) @@
    (<<"e", "l", "s", "e">> :> [type |-> "LUA", kind |-> "ELSE", msg |-> ""]) @@
    (<<"f", "o", "r">> :> [type |-> "LUA", kind |-> "FOR", msg |-> ""]) @@
    (<<"i", "n">> :> [type |-> "LUA", kind |-> "IN", msg |-> ""]) @@
    (<<"w", "h", "i", "l", "e">> :> [type |-> "LUA", kind |-> "WHILE", msg |-> ""]) @@
    (<<"u", "n", "t", "i", "l">> :> [type |-> "LUA", kind |-> "UNTIL", msg |-> ""]) @@
    (<<"l", "o", "c", "a", "l">> :> [type |-> "LUA", kind |-> "LOCAL", msg |-> ""]) @@
    (<<"r", "e", "t", "u", "r", "n">> :> [type |-> "LUA", kind |-> "RETURN", msg |-> ""]) @@
    (<<"t", "r", "u", "e">> :> [type |-> "LUA", kind |-> "TRUE", msg |-> ""]) @@
    (<<"f", "a", "l", "s", "e">> :> [type |-> "LUA", kind |-> "FALSE", msg |-> ""]) @@
    (<<"n", "i", "l">> :> [type |-> "LUA", kind |-> "NIL", msg |-> ""]) @@
    (<<"b", "r", "e", "a", "k">> :> [type |-> "LUA", kind |-> "BREAK", msg |-> ""]) @@
    (<<"o", "f">> :> [type |-> "JUST", kind |-> "OF", msg |-> ""]) @@
    (<<"w", "i", "t", "h">> :> [type |-> "JUST", kind |-> "WITH", msg |-> ""]) @@
    (<<"m", "e", "t", "a">> :> [type |-> "JUST", kind |-> "META", msg |-> ""]) @@
    (<<"g", "l", "o", "b", "a", "l">> :> [type |-> "JUST", kind |-> "GLOBAL", msg |-> ""]) @@
    (<<"f", "n">> :> [type |-> "JUST", kind |-> "FN", msg |-> ""]) @@
    (<<"m", "e", "t", "h", "o", "d">> :> [type |-> "JUST", kind |-> "METHOD", msg |-> ""]) @@
    (<<"l", "o", "o", "p">> :> [type |-> "JUST", kind |-> "LOOP", msg |-> ""]) @@
    (<<"s", "t", "a", "t", "i", "c">> :> [type |-> "JUST", kind |-> "STATIC", msg |-> ""]) @@
    (<<"e", "n", "u", "m">> :> [type |-> "JUST", kind |-> "ENUM", msg |-> ""]) @@
    (<<"c", "o", "n", "t", "i", "n", "u", "e">> :> [type |-> "JUST", kind |-> "CONTINUE", msg |-> ""]) @@
    (<<"t", "r", "y">> :> [type |-> "JUST", kind |-> "TRY", msg |-> ""]) @@
    (<<"c", "a", "t", "c", "h">> :> [type |-> "JUST", kind |-> "CATCH", msg |-> ""]) @@
    (<<"m", "a", "t", "c", "h">> :> [type |-> "JUST", kind |-> "MATCH", msg |-> ""]) @@
    (<<"d", "e", "f", "a", "u", "l", "t">> :> [type |-> "JUST", kind |-> "DEFAULT", msg |-> ""]) @@
    (<<"m", "a", "c", "r", "o">> :> [type |-> "ERROR", kind |-> "IDENTIFIER",
        msg |-> "'macro' is deprecated and was replaced with '@define'"]) @@
    (<<"c", "o", "n", "s", "t", "r", "u", "c", "t", "o", "r">> :> [type |-> "ERROR", kind |-> "IDENTIFIER",
        msg |-> "'constructor' is reserved for Clue 4.0 and cannnot be used."]) @@
    (<<"s", "t", "r", "u", "c", "t">> :> [type |-> "ERROR", kind |-> "IDENTIFIER",
        msg |-> "'struct' is reserved for Clue 4.0 and cannot be used"]) @@
    (<<"e", "x", "t", "e", "r", "n">> :> [type |-> "ERROR", kind |-> "IDENTIFIER",
        msg |-> "'extern' is reserved for Clue 4.0 and cannot be used"])

(* scan_char: the CodeInfo after it, and whether the table has c. *)
RECURSIVE scan_char(_, _, _)
RECURSIVE scan_symbols(_, _, _)

scan_symbols_end(r, default) ==
    IF r.matched THEN r.self
    ELSE add_token([r.self EXCEPT !.current = @ - 1], default)

scan_symbols(self, token, a) ==
    scan_symbols_end(scan_char(a.self, token.symbols, a.c), token.default)

scan_char(self, symbols, c) ==
    IF c \notin DOMAIN symbols THEN [self |-> self, matched |-> FALSE]
    ELSE [matched |-> TRUE,
          self |-> CASE symbols[c].type = "JUST" ->
                            add_token(self, symbols[c].kind)
                     [] symbols[c].type = "SYMBOLS" ->
                            scan_symbols(self, symbols[c], advance(self))
                     [] symbols[c].type = "FUNCTION" ->
                            call(symbols[c].f, self)]

(* The arm of a digit: c has been read. *)
scan_number(self, c) ==
    IF c = "0" /\ peek(self, 0) \in {"x", "X"}
    THEN read_number([self EXCEPT !.current = @ + 1], HexDigit, FALSE)
    ELSE IF c = "0" /\ peek(self, 0) \in {"b", "B"}
    THEN read_number([self EXCEPT !.current = @ + 1], BinDigit, FALSE)
    ELSE read_number(self, Digit, TRUE)

(* The token kind of an identifier, and the diagnostic it may print. *)
scan_keyword(self, ident) ==
    IF ident \in DOMAIN KEYWORDS
    THEN LET keyword == KEYWORDS[ident]
         IN  CASE keyword.type = "LUA" -> add_token(self, keyword.kind)
               [] keyword.type = "RESERVED" ->
                      add_token(reserved(self, ident, keyword.msg),
                                "IDENTIFIER")
               [] keyword.type \in {"JUST", "ERROR"}
                      /\ self.last \in {"DOT", "SAFEDOT", "DOUBLE_COLON",
                                        "SAFE_DOUBLE_COLON"} ->
                      add_token(self, "IDENTIFIER")
               [] keyword.type = "JUST" -> add_token(self, keyword.kind)
               [] keyword.type = "ERROR" ->
                      add_token(warning(self, keyword.msg, NoArg),
                                "IDENTIFIER")
    ELSE add_token(self, "IDENTIFIER")

scan_identifier(self) ==
    scan_keyword(self, substr(self, self.start, self.current))

(* What follows scan_char in the loop of scan_code. *)
scan_other(r, c) ==
    IF r.matched THEN r.self
    ELSE IF is_whitespace(c) THEN r.self
    ELSE IF is_ascii_digit(c) THEN scan_number(r.self, c)
    ELSE IF is_ascii_alphabetic(c) \/ c = "_"
    THEN scan_identifier(read_identifier(r.self))
    ELSE warning(r.self, "Unexpected character 'X'", <<<<c>>>>)

scan_advanced(a) == scan_other(scan_char(a.self, SymbolsTable, a.c), a.c)

(* One iteration of the loop of scan_code. *)
scan_step(self) == scan_advanced(advance([self EXCEPT !.start = self.current]))

(* After the loop: the failure, or the EOF token and the tokens. *)
scan_return(self) ==
    IF self.errored THEN self
    ELSE [add_literal_token(self, "EOF", <<"<", "e", "n", "d", ">">>)
             EXCEPT !.tokens[Len(self.tokens) + 1].at = self.size]

-----------------------------------------------------------------------------
(* The driver of the scanner: scan_code on a text, one loop iteration per *)
(* step.                                                                  *)

InitScan(texts) ==
    /\ overflowChecks = FALSE
    /\ pc = "scan"
    /\ codeinfo \in {CodeInfo_new(text) : text \in texts}
    /\ file = NoFile
    /\ code = <<>>
    /\ line = 1
    /\ rawcode = <<>>
    /\ chars = 1
    /\ origin = <<>>
    /\ prev = TRUE
    /\ prevline = 1
    /\ values = EmptyMap
    /\ pseudos = None
    /\ result = Running

(* One iteration of the loop. *)
ScanStep ==
    /\ pc = "scan"
    /\ ~ended(codeinfo)
    /\ codeinfo' = scan_step(codeinfo)
    /\ UNCHANGED <<scenario, overflowChecks, pc, rawcode, chars, code, origin,
                   prev, prevline, line, values, pseudos, file, result>>

(* The code has ended: Err, or Ok(i.tokens) with the EOF token. *)
ScanReturn ==
    /\ pc = "scan"
    /\ ended(codeinfo)
    /\ codeinfo' = scan_return(codeinfo)
    /\ result' = IF codeinfo.errored
                 THEN error("Cannot continue until the above errors are fixed",
                            NoArg, 0)
                 ELSE Ok([tokens |-> scan_return(codeinfo).tokens])
    /\ pc' = "done"
    /\ UNCHANGED <<scenario, overflowChecks, rawcode, chars, code, origin,
                   prev, prevline, line, values, pseudos, file>>

NextScan == ScanStep \/ ScanReturn

-----------------------------------------------------------------------------
(* Scenario "tokens": identifiers, symbols, numbers, strings with         *)
(* newlines and escapes, raw strings and comments over several lines.     *)

MaxTokenFrags == 5

TokenFrags ==
    { <<"x">>, <<"1">>, <<"+">>, <<"\n">>, <<"\"">>, <<"\\">>, <<Backtick>>,
      <<"/", "*">>, <<"*", "/">>, <<"i", "f">> }

InitTokens ==
    /\ scenario = "tokens"
    /\ InitScan(Texts(TokenFrags, MaxTokenFrags))

SpecTokens == InitTokens /\ [][NextScan]_vars

(* C3 (as claimed): the line of every token scan_code appends is 1 plus   *)
(* the number of newlines of the code before the first character of its   *)
(* lexeme.                                                                *)
C3_TokenStartLine ==
    \A k \in 1..Len(codeinfo.tokens) :
        codeinfo.tokens[k].line
            = 1 + NewlineCount(SubSeq(codeinfo.code, 1,
                                      codeinfo.tokens[k].at))


-----------------------------------------------------------------------------
(* Scenario "directives": the directive names the preprocessor reserves   *)
(* without implementing them, next to an implemented and an unknown one.  *)

MaxDirectiveFrags == 3

Unimplemented ==
    { <<"i", "f">>, <<"e", "x", "e", "c", "u", "t", "e">>,
      <<"e", "v", "a", "l">>, <<"i", "n", "c", "l", "u", "d", "e">>,
      <<"m", "a", "c", "r", "o">> }

DirectiveFrags ==
    {At \o d \o <<" ">> : d \in Unimplemented}
        \cup {<<"x">>, <<"\n">>, At \o <<"n", "o", " ">>, DefineN}

InitDirectives ==
    /\ scenario = "directives"
    /\ InitPreprocess(Texts(DirectiveFrags, MaxDirectiveFrags), BOOLEAN)

SpecDirectives == InitDirectives /\ [][NextPreprocess]_vars

(* C11 (as claimed): a step over @if, @execute, @eval, @include or @macro *)
(* ends the run with an Err that carries a "not implemented" diagnostic,  *)
(* and no run of the preprocessor ends in a panic.                        *)
C11_UnimplementedIsErr ==
    [][ /\ \A d \in Unimplemented :
               NextIs(At \o d \o <<" ">>) =>
                   /\ pc' = "done"
                   /\ result'.status = "Err"
                   /\ result'.text = "not implemented"
        /\ pc' = "done" => result'.status \in {"Ok", "Err"} ]_vars


-----------------------------------------------------------------------------
(* The pipeline: the caller hands the text of analyze_file to             *)
(* preprocess_code (starting line 1, no inherited pseudos, empty values)  *)
(* and the code of preprocess_code to scan_code; an error of a stage ends *)
(* the run.                                                               *)

(* analyze_file returned Ok(code): preprocess_code starts on it. *)
AnalyzeHandOver ==
    /\ pc = "analyze"
    /\ ~read_char(file).c.some
    /\ rawcode' = analyze_step(AnalyzeFrame(file, code, line)).code
    /\ chars' = 1
    /\ code' = <<>>
    /\ origin' = <<>>
    /\ prev' = TRUE
    /\ prevline' = 1
    /\ line' = 1
    /\ values' = EmptyMap
    /\ pseudos' = None
    /\ pc' = "preprocess"
    /\ UNCHANGED <<scenario, overflowChecks, file, codeinfo, result>>

(* preprocess_code returned Ok((code, prev)): scan_code starts on code. *)
PreprocessHandOver ==
    /\ pc = "preprocess"
    /\ chars > Len(rawcode)
    /\ codeinfo' = CodeInfo_new(preprocess_step(Frame).code)
    /\ pc' = "scan"
    /\ UNCHANGED <<scenario, overflowChecks, rawcode, chars, code, origin,
                   prev, prevline, line, values, pseudos, file, result>>

NextPipeline ==
    \/ AnalyzeStep
    \/ AnalyzeHandOver
    \/ PreprocessStep
    \/ PreprocessHandOver
    \/ ScanStep
    \/ ScanReturn

-----------------------------------------------------------------------------
(* Scenario "unterminated": files made of a prefix without defect and one *)
(* construct that is opened and never closed.                             *)

MaxPrefixFrags == 2

MaxBodyLen == 2

PrefixFrags ==
    { <<"x">>, <<"\n">>, <<"\"", "s", "\"">>, <<"/", "*", "\n", "*", "/">>,
      Ifdef(<<"H">>) \o Block(<<"x">>) }

(* The sequences over S of length at most n. *)
SeqsUpTo(S, n) == UNION {[1..k -> S] : k \in 0..n}

(* An unterminated construct: its opening delimiter, the characters its   *)
(* body is made of (none closes it), and the diagnostic it calls for.     *)
Unterminated ==
    { [open |-> <<"/", "*">>, body |-> {"x", "\n", "*"},
       message |-> "Unterminated comment"],
      [open |-> Ifdef(<<"H">>) \o <<"{">>, body |-> {"x", "\n", "{"},
       message |-> "Expected 'X' before '<end>'"] }
        \cup { [open |-> <<q>>, body |-> {"x", "\n", "\\"},
                message |-> "Unterminated string"] :
                   q \in {"\"", "'", Backtick} }

UnterminatedFiles ==
    UNION { { p \o u.open \o b :
                 p \in Texts(PrefixFrags, MaxPrefixFrags),
                 b \in SeqsUpTo(u.body, MaxBodyLen) } : u \in Unterminated }

InitUnterminated ==
    /\ scenario = "unterminated"
    /\ InitAnalyze(UnterminatedFiles)

SpecUnterminated == InitUnterminated /\ [][NextPipeline]_vars

(* The diagnostics the run has reported: the one of the returned Err and  *)
(* those the scanner printed, each with its line.                         *)
Reported ==
    (IF result.status = "Err"
     THEN {[message |-> result.text, line |-> result.errline]} ELSE {})
        \cup {[message |-> codeinfo.printed[k].message,
               line |-> codeinfo.printed[k].line] :
                 k \in DOMAIN codeinfo.printed}

(* C12 (as claimed): on a file whose only defect is an unterminated block *)
(* comment, string or directive block, the pipeline finishes (it neither  *)
(* loops forever nor panics) with an error, and has reported the          *)
(* diagnostic of the construct with a line between the line of the        *)
(* opening delimiter and the last line of the file.                       *)
C12_UnterminatedReported ==
    /\ result.status \notin {"Hang", "Panic"}
    /\ Done =>
          /\ result.status = "Err"
          /\ \A p \in Texts(PrefixFrags, MaxPrefixFrags) :
             \A u \in Unterminated :
             \A b \in SeqsUpTo(u.body, MaxBodyLen) :
                 file.bytes = p \o u.open \o b =>
                     \E d \in Reported :
                         /\ d.message = u.message
                         /\ d.line \in (1 + NewlineCount(p))
                                         .. (1 + NewlineCount(file.bytes))


-----------------------------------------------------------------------------
(* Scenario "diagnostics": texts that call for every diagnostic of the    *)
(* scanner: an unexpected character, a malformed number, an unterminated  *)
(* string, an unterminated comment, a word reserved in Lua and a word     *)
(* with an error message of its own, also as a field name.                *)

MaxDiagnosticFrags == 4

WordAnd == <<"a", "n", "d">>

WordMacro == <<"m", "a", "c", "r", "o">>

DiagnosticFrags ==
    { <<"x">>, <<" ">>, <<"\\">>, <<"1", "e">>, <<"\"">>, <<"/", "*">>,
      <<".">>, WordAnd, WordMacro }

InitDiagnostics ==
    /\ scenario = "diagnostics"
    /\ InitScan(Texts(DiagnosticFrags, MaxDiagnosticFrags))

SpecDiagnostics == InitDiagnostics /\ [][NextScan]_vars

(* The next lexeme scan_code reads is the word w: the text at current is  *)
(* w and no character of an identifier follows it.                        *)
WordAt(w) ==
    /\ pc = "scan"
    /\ codeinfo.current + Len(w) <= codeinfo.size
    /\ SubSeq(codeinfo.code, codeinfo.current + 1,
              codeinfo.current + Len(w)) = w
    /\ \/ codeinfo.current + Len(w) = codeinfo.size
       \/ ~is_identifier(codeinfo.code[codeinfo.current + Len(w) + 1])

(* C13: scan_code runs to the end of its input whatever it reports (a     *)
(* step never ends the run, and what has been printed stays printed); a   *)
(* step over a word that is reserved in Lua or has an error message of    *)
(* its own appends an IDENTIFIER token with the word as its lexeme; at    *)
(* the end the result is Err("Cannot continue until the above errors are  *)
(* fixed") iff a diagnostic was printed, and otherwise Ok(tokens) where   *)
(* the last token, and no other, has kind EOF.                            *)
C13_ErrorsCollected ==
    [][ /\ (pc = "scan" /\ ~ended(codeinfo)) =>
               /\ pc' = "scan"
               /\ result' = result
               /\ codeinfo'.current > codeinfo.current
        /\ pc = "scan" =>
               /\ Len(codeinfo'.printed) >= Len(codeinfo.printed)
               /\ SubSeq(codeinfo'.printed, 1, Len(codeinfo.printed))
                      = codeinfo.printed
        /\ \A w \in {WordAnd, WordMacro} :
               WordAt(w) =>
                   /\ Len(codeinfo'.tokens) = Len(codeinfo.tokens) + 1
                   /\ codeinfo'.tokens[Len(codeinfo'.tokens)].kind
                          = "IDENTIFIER"
                   /\ codeinfo'.tokens[Len(codeinfo'.tokens)].lexeme = w
        /\ (pc = "scan" /\ pc' = "done") =>
               /\ codeinfo.current >= Len(codeinfo.code)
               /\ codeinfo'.printed = codeinfo.printed
               /\ IF codeinfo.printed # <<>>
                  THEN result' = error("Cannot continue until the above errors are fixed",
                                       NoArg, 0)
                  ELSE /\ result'.status = "Ok"
                       /\ result'.tokens # <<>>
                       /\ {k \in DOMAIN result'.tokens :
                              result'.tokens[k].kind = "EOF"}
                            = {Len(result'.tokens)}
                       /\ SubSeq(result'.tokens, 1, Len(result'.tokens) - 1)
                            = codeinfo.tokens ]_vars

(* The case of C13: the run went on after its first diagnostic (two have  *)
(* been printed), the reserved word has its IDENTIFIER token, and the     *)
(* result is the summary error.                                           *)
C13_Witness ==
    /\ scenario = "diagnostics"
    /\ Done
    /\ result.status = "Err"
    /\ Len(codeinfo.printed) >= 2
    /\ \E k \in DOMAIN codeinfo.tokens :
           codeinfo.tokens[k].kind = "IDENTIFIER"
               /\ codeinfo.tokens[k].lexeme = WordAnd


-----------------------------------------------------------------------------
(* Scenario "fields": words of every keyword type after the tokens that   *)
(* access a field, after a string and after other tokens.                 *)

MaxFieldFrags == 3

WordIf == <<"i", "f">>

WordOf == <<"o", "f">>

FieldWords == {WordIf, WordOf, WordAnd, WordMacro}

FieldFrags ==
    FieldWords \cup { <<"x">>, <<" ">>, <<".">>, <<"?", ".">>, <<":", ":">>,
                      <<"\"", "s", "\"">> }

InitFields ==
    /\ scenario = "fields"
    /\ InitScan(Texts(FieldFrags, MaxFieldFrags))

SpecFields == InitFields /\ [][NextScan]_vars

FieldAccess == {"DOT", "SAFEDOT", "DOUBLE_COLON", "SAFE_DOUBLE_COLON"}

(* The kind of the token emitted last, EOF (the initial last) if none. *)
LastEmitted(tokens) ==
    IF tokens = <<>> THEN "EOF" ELSE tokens[Len(tokens)].kind

(* C14 (as claimed): a step over a word of the keyword table appends an   *)
(* IDENTIFIER and reports nothing when the token emitted just before it   *)
(* accesses a field, and otherwise follows the entry of the word (its own *)
(* kind for a keyword, IDENTIFIER and a diagnostic for a word that is     *)
(* reserved or has an error message); after every step that emits a       *)
(* token, a STRING included, last is the kind of that token.              *)
C14_FieldNames ==
    [][ /\ \A w \in FieldWords :
               WordAt(w) =>
                   LET new == codeinfo'.tokens[Len(codeinfo'.tokens)]
                   IN  /\ Len(codeinfo'.tokens) = Len(codeinfo.tokens) + 1
                       /\ IF LastEmitted(codeinfo.tokens) \in FieldAccess
                          THEN /\ new.kind = "IDENTIFIER"
                               /\ codeinfo'.printed = codeinfo.printed
                          ELSE IF KEYWORDS[w].type \in {"RESERVED", "ERROR"}
                          THEN /\ new.kind = "IDENTIFIER"
                               /\ Len(codeinfo'.printed)
                                      = Len(codeinfo.printed) + 1
                          ELSE /\ new.kind = KEYWORDS[w].kind
                               /\ codeinfo'.printed = codeinfo.printed
        /\ (pc = "scan" /\ pc' = "scan"
                /\ Len(codeinfo'.tokens) > Len(codeinfo.tokens)) =>
               codeinfo'.last = LastEmitted(codeinfo'.tokens) ]_vars


-----------------------------------------------------------------------------
(* Scenario "numbers": numeric bodies of the three radixes followed by    *)
(* suffix letters.                                                        *)

MaxNumberFrags == 4

NumberBodies == { <<"1">>, <<"0", "x", "F", "F">>, <<"0", "b", "1">> }

NumberFrags ==
    NumberBodies \cup { <<"L">>, <<"U">>, <<"u">>, <<" ">>, <<"+">> }

InitNumbers ==
    /\ scenario = "numbers"
    /\ InitScan(Texts(NumberFrags, MaxNumberFrags))

SpecNumbers == InitNumbers /\ [][NextScan]_vars

(* The scanner has printed the diagnostic Malformed number. *)
MalformedNumber ==
    \E k \in DOMAIN codeinfo.printed :
        codeinfo.printed[k].message = "Malformed number"

(* C15 (as claimed): of a text made of a numeric body and the suffix LL   *)
(* or ULL the scanner makes one NUMBER token whose lexeme is the text; a  *)
(* body with the suffix UL that no L follows is reported as a malformed   *)
(* number; and so is 0xFFuL.                                              *)
C15_NumberSuffixes ==
    Done =>
        /\ \A body \in NumberBodies :
               /\ \A suffix \in {<<"L", "L">>, <<"U", "L", "L">>} :
                      codeinfo.code = body \o suffix =>
                          /\ result.status = "Ok"
                          /\ Len(result.tokens) = 2
                          /\ result.tokens[1].kind = "NUMBER"
                          /\ result.tokens[1].lexeme = codeinfo.code
               /\ \A rest \in {<<>>, <<" ">>, <<"+">>, <<"U">>} :
                      codeinfo.code = body \o <<"U", "L">> \o rest =>
                          MalformedNumber
        /\ codeinfo.code = <<"0", "x", "F", "F", "u", "L">> => MalformedNumber


-----------------------------------------------------------------------------
(* Scenario "rawstrings": one raw string whose body is made of closing    *)
(* brackets, equals signs, a letter and escaped grave accents.            *)

MaxRawFrags == 4

EscapedBacktick == <<"\\", Backtick>>

RawFrags == { <<"]">>, <<"=">>, <<"x">>, EscapedBacktick }

RawBodies == UNION {[1..k -> RawFrags] : k \in 0..MaxRawFrags}

RawString(fs) == <<Backtick>> \o Concat(fs) \o <<Backtick>>

InitRawStrings ==
    /\ scenario = "rawstrings"
    /\ InitScan({RawString(fs) : fs \in RawBodies})

SpecRawStrings == InitRawStrings /\ [][NextScan]_vars

(* The body with each escaped grave accent replaced by a grave accent. *)
Unescaped(fs) ==
    Concat([k \in DOMAIN fs |->
               IF fs[k] = EscapedBacktick THEN <<Backtick>> ELSE fs[k]])

(* The level of a long bracket: the equals signs after its first bracket. *)
LongLevel(lexeme) ==
    CHOOSE k \in 0..Len(lexeme) :
        /\ \A j \in 2..(k + 1) : j <= Len(lexeme) /\ lexeme[j] = "="
        /\ (k + 2 > Len(lexeme) \/ lexeme[k + 2] # "=")

(* A long-bracket literal as the target language reads it: after the     *)
(* opening bracket of level k the content runs up to the first closing    *)
(* bracket of level k; rest is the text after that bracket.               *)
ReadLongBracket(lexeme) ==
    LET k == LongLevel(lexeme)
        close == <<"]">> \o Repeat("=", k) \o <<"]">>
        from == k + 3
        ends == {e \in from..(Len(lexeme) - Len(close) + 1) :
                    SubSeq(lexeme, e, e + Len(close) - 1) = close}
        first == CHOOSE e \in ends : \A d \in ends : e <= d
    IN  IF Len(lexeme) < from - 1 \/ lexeme[1] # "[" \/ lexeme[k + 2] # "["
           \/ ends = {}
        THEN [valid |-> FALSE, content |-> <<>>, rest |-> <<>>]
        ELSE [valid |-> TRUE,
              content |-> SubSeq(lexeme, from, first - 1),
              rest |-> SubSeq(lexeme, first + Len(close), Len(lexeme))]

(* C16 (as claimed): the STRING lexeme of a raw string, read as a long    *)
(* bracket (the content ends at the first closing bracket of its level),  *)
(* denotes the body with its escaped grave accents unescaped, and no text *)
(* is left over.                                                          *)
C16_RawStringRoundTrip ==
    Done =>
        \A fs \in RawBodies :
            codeinfo.code = RawString(fs) =>
                /\ result.status = "Ok"
                /\ Len(result.tokens) = 2
                /\ result.tokens[1].kind = "STRING"
                /\ ReadLongBracket(result.tokens[1].lexeme)
                       = [valid |-> TRUE, content |-> Unescaped(fs),
                          rest |-> <<>>]


-----------------------------------------------------------------------------
(* Scenario "unicode": files with the scalar U+00E9 (two bytes) outside   *)
(* strings and comments, next to bytes that do not decode, a comment and  *)
(* a string.                                                              *)

MaxUnicodeFrags == 3

EAcuteBytes == <<LeadByte, ContinuationByte>>

(* The fragments that are valid UTF-8, outside strings and comments. *)
ValidFrags == { <<"x">>, <<"\n">>, EAcuteBytes }

UnicodeFrags ==
    ValidFrags \cup { <<InvalidByte>>, <<LeadByte>>, <<"\"">>,
                      <<"/", "*", "*", "/">> }

InitUnicode ==
    /\ scenario = "unicode"
    /\ InitAnalyze(Texts(UnicodeFrags, MaxUnicodeFrags))

SpecUnicode == InitUnicode /\ [][NextAnalyze]_vars

(* The text the fragments fs encode. *)
Decoded(fs) ==
    Concat([k \in DOMAIN fs |->
               IF fs[k] = EAcuteBytes THEN <<EAcute>> ELSE fs[k]])

(* C17 (as claimed): a file made of ASCII characters and valid scalars of *)
(* several bytes, outside strings and comments, is analyzed to the text   *)
(* it encodes; Invalid character is reported only for bytes that do not   *)
(* decode.                                                                *)
C17_ScalarsPassThrough ==
    Done =>
        \A fs \in UNION {[1..k -> ValidFrags] : k \in 0..MaxUnicodeFrags} :
            file.bytes = Concat(fs) =>
                /\ result.status = "Ok"
                /\ code = Decoded(fs)


-----------------------------------------------------------------------------
(* Scenario "twice": preprocess_code is called on a text and, when it     *)
(* succeeds with a code that holds neither @ nor $, once more on that     *)
(* code.                                                                  *)

MaxTwiceFrags == 4

TwiceFrags ==
    { <<"x">>, <<"\n">>, <<" ">>, <<"\"">>, <<"\\">>, <<"/">>, <<"*">>,
      <<"=">>, <<"$", "1">>, <<"@">> }

InitTwice ==
    /\ scenario = "twice"
    /\ InitPreprocess(Texts(TwiceFrags, MaxTwiceFrags), {FALSE})

(* The second call: preprocess_code(code, None, AHashMap::new(), &mut 1,  *)
(* filename) on the code of the first, as a whole.                        *)
PreprocessAgain ==
    /\ pc = "done"
    /\ result.status = "Ok"
    /\ \A k \in DOMAIN code : code[k] \notin {"@", "$"}
    /\ LET f == preprocess_code(code, None, EmptyMap, 1, TRUE, 0)
       IN  /\ rawcode' = code
           /\ chars' = f.i
           /\ code' = f.code
           /\ origin' = f.origin
           /\ prev' = f.prev
           /\ prevline' = f.prevline
           /\ line' = f.line
           /\ values' = f.values
           /\ pseudos' = f.pseudos
           /\ result' = Failure(f)
    /\ pc' = "done twice"
    /\ UNCHANGED <<scenario, overflowChecks, file, codeinfo>>

NextTwice == PreprocessStep \/ PreprocessReturn \/ PreprocessAgain

SpecTwice == InitTwice /\ [][NextTwice]_vars

(* C18 (as claimed): when preprocess_code has succeeded with a code that  *)
(* holds neither @ nor $, the second call on that code (rawcode is its    *)
(* input) succeeds and returns the same text.                             *)
C18_Idempotent ==
    pc = "done twice" => result.status = "Ok" /\ code = rawcode


-----------------------------------------------------------------------------
(* Scenario "blockcomments": one block comment between two stretches of   *)
(* plain text, closed or left open.                                       *)

MaxStretchLen == 2

MaxCommentLen == 2

(* The plain text before and after the comment. *)
Stretches == SeqsUpTo({"x", " "}, MaxStretchLen)

(* The interior of the comment: it holds no slash, so no star and slash. *)
Interiors == SeqsUpTo({"c", " ", "*"}, MaxCommentLen)

CommentOpen == <<"/", "*">>

CommentClose == <<"*", "/">>

InitBlockComments ==
    /\ scenario = "blockcomments"
    /\ InitPreprocess(
           { pre \o CommentOpen \o body \o CommentClose \o post :
                 pre \in Stretches, body \in Interiors, post \in Stretches }
             \cup { pre \o CommentOpen \o body :
                        pre \in Stretches, body \in Interiors },
           {FALSE})

SpecBlockComments == InitBlockComments /\ [][NextPreprocess]_vars

(* C20 (as claimed): a block comment ends at the first star and slash     *)
(* after its opening, wherever they stand; the text before the comment    *)
(* stays in the output and the text after it follows; Unterminated        *)
(* comment is returned only when no star and slash follow.                *)
C20_BlockComments ==
    Done =>
        \A pre \in Stretches : \A body \in Interiors :
            /\ \A post \in Stretches :
                   rawcode = pre \o CommentOpen \o body \o CommentClose
                                 \o post =>
                       /\ result.status = "Ok"
                       /\ code = pre \o post
            /\ rawcode = pre \o CommentOpen \o body =>
                   /\ result.status = "Err"
                   /\ result.text = "Unterminated comment"


-----------------------------------------------------------------------------
(* Scenario "stars": files with one block comment between two stretches   *)
(* of plain text, closed or left open; the interior may end with stars.   *)

InitStars ==
    /\ scenario = "stars"
    /\ InitAnalyze(
           { pre \o CommentOpen \o body \o CommentClose \o post :
                 pre \in Stretches, body \in Interiors, post \in Stretches }
             \cup { pre \o CommentOpen \o body :
                        pre \in Stretches, body \in Interiors })

SpecStars == InitStars /\ [][NextAnalyze]_vars

(* C21 (as claimed): analyze_file ends a block comment at the first star  *)
(* and slash after its opening, also when stars precede them, so the file *)
(* is analyzed to the text around the comment; Unterminated comment is    *)
(* returned if and only if no star and slash follow the opening.          *)
C21_AnalyzerBlockComments ==
    Done =>
        \A pre \in Stretches : \A body \in Interiors :
            /\ \A post \in Stretches :
                   file.bytes = pre \o CommentOpen \o body \o CommentClose
                                    \o post =>
                       /\ result.status = "Ok"
                       /\ code = pre \o post
            /\ file.bytes = pre \o CommentOpen \o body =>
                   /\ result.status = "Err"
                   /\ result.text = "Unterminated comment"


-----------------------------------------------------------------------------
(* Scenario "cache": assignments, comparisons and arrows between          *)
(* references to the first pseudo-variable.                               *)

MaxCacheFrags == 4

(* The operators made of two characters that hold an equals sign. *)
Comparisons ==
    { <<"=", "=">>, <<"=", ">">>, <<"!", "=">>, <<"<", "=">>, <<">", "=">> }

CacheFrags ==
    Comparisons \cup { <<"a">>, <<"b">>, <<" ", "=", " ">>, <<"=">>,
                       <<"$", "1">> }

(* a = $1 == $1 b = $1 *)
CacheExample ==
    <<"a", " ", "=", " ", "$", "1", " ", "=", "=", " ", "$", "1", " ",
      "b", " ", "=", " ", "$", "1">>

InitCache ==
    /\ scenario = "cache"
    /\ InitPreprocess(Texts(CacheFrags, MaxCacheFrags) \cup {CacheExample},
                      {FALSE})

SpecCache == InitCache /\ [][NextPreprocess]_vars

(* The name $n stands for in the list (pushed right-most first). *)
Named(list, n) ==
    IF n = 0 \/ n > Len(list) THEN <<"n", "i", "l">>
    ELSE list[Len(list) - n + 1]

(* The next step of the outermost call copies a bare equals sign: one     *)
(* that a character other than = and > follows.                           *)
AtBareEquals ==
    /\ pc = "preprocess"
    /\ chars < Len(rawcode)
    /\ rawcode[chars] = "="
    /\ rawcode[chars + 1] \notin {"=", ">"}

(* C22: a reference $N made while a list is cached uses that list and     *)
(* leaves it cached; a reference made while none is cached scans the text *)
(* emitted so far and caches what it finds; the step that copies a bare   *)
(* equals sign clears the cache (when the text ends with the equals sign  *)
(* no reference follows, and the run ends); the steps that copy ==, =>,   *)
(* !=, <= or >=, and every other step, leave the cache as it is.          *)
C22_CacheInvalidation ==
    [][ /\ (pc = "preprocess" /\ DollarName # <<>> /\ IsUsize(DollarName)) =>
               LET list == IF pseudos.some THEN pseudos.list
                           ELSE read_pseudos(code)
               IN  /\ pseudos' = Some(list)
                   /\ code' = code \o Named(list, PseudoIndex)
        /\ AtBareEquals => (pseudos' = None /\ code' = Append(code, "="))
        /\ \A w \in Comparisons :
               NextIs(w) => (pseudos' = pseudos /\ code' = code \o w)
        /\ (pc = "preprocess" /\ chars <= Len(rawcode)
                /\ rawcode[chars] \notin {"$", "="}) => pseudos' = pseudos
        /\ (pc = "preprocess" /\ chars = Len(rawcode)
                /\ rawcode[chars] = "=") => chars' > Len(rawcode) ]_vars

(* The case of C22: in a = $1 == $1 b = $1 the second reference has used  *)
(* the cached list (a) across ==, and the third, after the bare equals    *)
(* sign, the list of the new scan (b).                                    *)
C22_Witness ==
    /\ Done
    /\ rawcode = CacheExample
    /\ code = <<"a", " ", "=", " ", "a", " ", "=", "=", " ", "a", " ",
                "b", " ", "=", " ", "b">>
    /\ pseudos = Some(<<<<"b">>>>)


-----------------------------------------------------------------------------
(* Scenario "nesting": @ifdef H (H is set in the host environment)        *)
(* followed by braces and letters, also by more opening braces than the   *)
(* depth counter of read_block can count.                                 *)

MaxNestFrags == 4

NestFrags == { <<"{">>, <<"}">>, <<"x">> }

(* One opening brace more than a u8 holds, left open; and one more than   *)
(* that, followed by a single closing brace.                              *)
DeepBlocks ==
    { Repeat("{", U8Max + 1), Append(Repeat("{", U8Max + 2), "}") }

(* The blocks after @ifdef H are kept, those after @ifdef N are not. *)
InitNesting ==
    /\ scenario = "nesting"
    /\ InitPreprocess({Ifdef(<<"H">>) \o t :
                          t \in Texts(NestFrags, MaxNestFrags)}
                         \cup {Ifdef(<<"N">>) \o t :
                                  t \in Texts(NestFrags, MaxNestFrags)
                                            \cup DeepBlocks},
                      BOOLEAN)

SpecNesting == InitNesting /\ [][NextPreprocess]_vars

(* How many of the first m characters of t are c. *)
Count(t, c, m) == Cardinality({k \in 1..m : t[k] = c})

(* The index of the brace that closes the block t opens with its first    *)
(* character: the first index up to which t has as many closing as        *)
(* opening braces; 0 when the text ends before.                           *)
Matching(t) ==
    LET ms == {m \in 1..Len(t) : Count(t, "{", m) = Count(t, "}", m)}
    IN  IF ms = {} THEN 0 ELSE CHOOSE m \in ms : \A k \in ms : m <= k

(* C23 (as claimed): the step over a directive whose block opens with the *)
(* next character takes exactly the text up to the matching closing brace *)
(* (a kept block is copied to the output, the other is dropped), fails    *)
(* with Expected '}' before '<end>' if and only if the text ends before   *)
(* that brace, and never ends in an arithmetic overflow of the depth      *)
(* counter.                                                               *)
C23_BalancedBlocks ==
    [][ (pc = "preprocess" /\ chars = 1) =>
            LET n == Len(Ifdef(<<"H">>))
                kept == SubSeq(rawcode, 1, n) = Ifdef(<<"H">>)
                t == SubSeq(rawcode, n + 1, Len(rawcode))
                m == Matching(t)
            IN  (t # <<>> /\ t[1] = "{") =>
                    /\ result'.status # "Panic"
                    /\ IF m = 0
                       THEN /\ pc' = "done"
                            /\ result' = expected_before(<<"}">>, 1)
                       ELSE /\ pc' = "preprocess"
                            /\ code' = IF kept THEN SubSeq(t, 2, m - 1)
                                       ELSE <<>>
                            /\ chars' = n + m + 1 ]_vars


-----------------------------------------------------------------------------
(* Scenario "termination": files of string delimiters, backslashes,       *)
(* letters, slashes, stars and newlines, so that strings and comments are *)
(* closed, left open, or left open after a backslash and one more byte.   *)

MaxTerminationFrags == 4

TerminationFrags ==
    {<<"'">>, <<"\"">>, <<"\\">>, <<"x">>, <<"\n">>, <<"/">>, <<"*">>}

InitTermination ==
    /\ scenario = "termination"
    /\ InitAnalyze(Texts(TerminationFrags, MaxTerminationFrags))

SpecTermination == InitTermination /\ [][NextAnalyze]_vars

(* C24 (as claimed): on every finite file analyze_file returns Ok or Err; *)
(* the loop that reads a string literal ends when the file ends inside    *)
(* the string, also after a backslash and one more byte.                  *)
C24_AnalyzerTerminates ==
    Done => result.status \in {"Ok", "Err"}


-----------------------------------------------------------------------------
(* Scenario "symbols": texts of question marks, colons, dots, equals      *)
(* signs, letters and blanks, all on one line and without strings or      *)
(* comments, so that every character but the blank is scanned through the *)
(* table of symbols or as an identifier.                                  *)

MaxSymbolFrags == 4

SymbolFrags == {<<"?">>, <<":">>, <<".">>, <<"=">>, <<"x">>, <<" ">>}

InitSymbols ==
    /\ scenario = "symbols"
    /\ InitScan(Texts(SymbolFrags, MaxSymbolFrags))

SpecSymbols == InitSymbols /\ [][NextScan]_vars

(* The tokens of self, the EOF token aside, whose lexeme holds the        *)
(* character at pos.                                                      *)
TokensOver(self, pos) ==
    {k \in 1..Len(self.tokens) :
        /\ self.tokens[k].kind # "EOF"
        /\ self.tokens[k].at <= pos
        /\ pos < self.tokens[k].at + Len(self.tokens[k].lexeme)}

(* C25 (as claimed): when the scanner has returned without printing a     *)
(* diagnostic, every character but the blank is in the lexeme of exactly  *)
(* one token; and a question mark followed by a colon and a character     *)
(* other than a colon is the token QUESTION_MARK, followed by the token   *)
(* COLON.                                                                 *)
C25_NoDroppedSymbol ==
    Done =>
        /\ codeinfo.printed = <<>> =>
               \A p \in 0..(codeinfo.size - 1) :
                   at(codeinfo, p) # " " =>
                       Cardinality(TokensOver(codeinfo, p)) = 1
        /\ \A p \in 0..(codeinfo.size - 3) :
               (/\ at(codeinfo, p) = "?"
                /\ at(codeinfo, p + 1) = ":"
                /\ at(codeinfo, p + 2) # ":") =>
                   \E k \in 1..(Len(codeinfo.tokens) - 1) :
                       /\ codeinfo.tokens[k] =
                              Token_new("QUESTION_MARK", <<"?">>, 1, p)
                       /\ codeinfo.tokens[k + 1] =
                              Token_new("COLON", <<":">>, 1, p + 1)

=============================================================================
